---- MODULE Spec2Model ----
(***************************************************************************)
(* A model of vizora's DataManager (src/vizora/core/data_manager.py):      *)
(* the type coercion of raw field texts, the format loaders, and the       *)
(* dataset registry with its memoised get_dataset.                         *)
(*                                                                         *)
(* Texts that the code inspects character by character (field values) are  *)
(* sequences of one-character strings: "45%" is <<"4","5","%">>.           *)
(* Python values are records [t, n, e, s]: t is the Python type name       *)
(* (type(v).__name__), n and e carry the number, s carries the text.       *)
(* A float is the exact decimal n * 10^e with n not divisible by 10        *)
(* (binary rounding of the double is not modelled); inf and nan are        *)
(* floats named by s.  A datetime is n = yyyymmdd, e = second of the day.  *)
(***************************************************************************)
EXTENDS Integers, Sequences, FiniteSets, TLC

\* ------------------------------------------------------------------ bounds
\* longest text drawn exhaustively over Alphabet as an input of coerce
MaxLen == 3

\* calls and file system changes in one run of the registry
MaxSteps == 5

\* most data lines of a generated table
MaxRows == 2

\* most rows of a generated column
MaxColumn == 4

\* ------------------------------------------------------------ Python values
NoneV == [t |-> "NoneType", n |-> 0, e |-> 0, s |-> <<>>]

BoolV(b) == [t |-> "bool", n |-> IF b THEN 1 ELSE 0, e |-> 0, s |-> <<>>]

IntV(i) == [t |-> "int", n |-> i, e |-> 0, s |-> <<>>]

StrV(txt) == [t |-> "str", n |-> 0, e |-> 0, s |-> txt]

DateV(ymd, sec) == [t |-> "datetime", n |-> ymd, e |-> sec, s |-> <<>>]

RECURSIVE Normalise(_, _)
Normalise(m, x) ==
    IF m = 0 THEN <<0, 0>>
    ELSE IF m % 10 = 0 THEN Normalise(m \div 10, x + 1)
    ELSE <<m, x>>

FloatV(m, x) ==
    LET nx == Normalise(m, x)
    IN  [t |-> "float", n |-> nx[1], e |-> nx[2], s |-> <<>>]

\* float('inf'), float('-inf'), float('nan')
SpecialFloatV(sign, word) ==
    [t |-> "float", n |-> sign, e |-> 0,
     s |-> IF word = <<"n","a","n">> THEN <<"n","a","n">> ELSE <<"i","n","f">>]

\* x / 100 on a float
DivHundred(v) ==
    IF v.s # <<>> THEN v ELSE FloatV(v.n, v.e - 2)

\* ------------------------------------------------------------- text helpers
Digits == {"0", "1", "2", "3", "4", "5", "6", "7", "8", "9"}

DigitVal(c) ==
    CASE c = "0" -> 0 [] c = "1" -> 1 [] c = "2" -> 2 [] c = "3" -> 3
      [] c = "4" -> 4 [] c = "5" -> 5 [] c = "6" -> 6 [] c = "7" -> 7
      [] c = "8" -> 8 [] c = "9" -> 9

UpperSeq == <<"A","B","C","D","E","F","G","H","I","J","K","L","M",
              "N","O","P","Q","R","S","T","U","V","W","X","Y","Z">>

LowerSeq == <<"a","b","c","d","e","f","g","h","i","j","k","l","m",
              "n","o","p","q","r","s","t","u","v","w","x","y","z">>

LowerChar(c) ==
    IF \E i \in 1..26 : UpperSeq[i] = c
    THEN LowerSeq[CHOOSE i \in 1..26 : UpperSeq[i] = c]
    ELSE c

\* str.lower()
Lower(txt) == [i \in 1..Len(txt) |-> LowerChar(txt[i])]

Whitespace == {" "}

RECURSIVE LStrip(_)
LStrip(txt) ==
    IF txt # <<>> /\ Head(txt) \in Whitespace THEN LStrip(Tail(txt)) ELSE txt

RECURSIVE RStrip(_)
RStrip(txt) ==
    IF txt # <<>> /\ txt[Len(txt)] \in Whitespace
    THEN RStrip(SubSeq(txt, 1, Len(txt) - 1))
    ELSE txt

\* str.strip()
Strip(txt) == RStrip(LStrip(txt))

\* str.replace(c, '')
Remove(txt, c) == SelectSeq(txt, LAMBDA x : x # c)

Contains(txt, c) == \E i \in 1..Len(txt) : txt[i] = c

\* first position of a character of cs in txt, 0 when there is none
FirstOf(txt, cs) ==
    IF \E i \in 1..Len(txt) : txt[i] \in cs
    THEN CHOOSE i \in 1..Len(txt) :
            txt[i] \in cs /\ \A j \in 1..(i - 1) : txt[j] \notin cs
    ELSE 0

\* digit (_? digit)* : the digit groups Python's int() and float() accept
IsDigitPart(txt) ==
    /\ txt # <<>>
    /\ txt[1] \in Digits
    /\ txt[Len(txt)] \in Digits
    /\ \A i \in 1..Len(txt) : txt[i] \in Digits \cup {"_"}
    /\ \A i \in 1..(Len(txt) - 1) : ~(txt[i] = "_" /\ txt[i + 1] = "_")

RECURSIVE DigitsValue(_, _)
DigitsValue(txt, acc) ==
    IF txt = <<>> THEN acc
    ELSE IF Head(txt) = "_" THEN DigitsValue(Tail(txt), acc)
    ELSE DigitsValue(Tail(txt), acc * 10 + DigitVal(Head(txt)))

NumDigits(txt) == Len(Remove(txt, "_"))

HasSign(txt) == txt # <<>> /\ Head(txt) \in {"+", "-"}

SignOf(txt) == IF txt # <<>> /\ Head(txt) = "-" THEN -1 ELSE 1

Unsigned(txt) == IF HasSign(txt) THEN Tail(txt) ELSE txt

Fail == [ok |-> FALSE, v |-> NoneV]

Parsed(val) == [ok |-> TRUE, v |-> val]

\* int(txt): surrounding blanks, a sign, digit groups; ValueError otherwise
ParseInt(txt) ==
    LET body == Unsigned(Strip(txt))
    IN  IF IsDigitPart(body)
        THEN Parsed(IntV(SignOf(Strip(txt)) * DigitsValue(body, 0)))
        ELSE Fail

\* float(txt): surrounding blanks, a sign, inf / infinity / nan, or a decimal
\* with an optional fraction and an optional exponent; ValueError otherwise
ParseFloat(txt) ==
    LET st   == Strip(txt)
        sg   == SignOf(st)
        body == Unsigned(st)
        low  == Lower(body)
        ePos == FirstOf(body, {"e", "E"})
        mant == IF ePos = 0 THEN body ELSE SubSeq(body, 1, ePos - 1)
        expo == IF ePos = 0 THEN <<>> ELSE SubSeq(body, ePos + 1, Len(body))
        dPos == FirstOf(mant, {"."})
        ip   == IF dPos = 0 THEN mant ELSE SubSeq(mant, 1, dPos - 1)
        fp   == IF dPos = 0 THEN <<>> ELSE SubSeq(mant, dPos + 1, Len(mant))
        mantOk == /\ ip = <<>> \/ IsDigitPart(ip)
                  /\ fp = <<>> \/ IsDigitPart(fp)
                  /\ ip # <<>> \/ fp # <<>>
        expOk  == ePos = 0 \/ IsDigitPart(Unsigned(expo))
        expVal == IF ePos = 0 THEN 0
                  ELSE SignOf(expo) * DigitsValue(Unsigned(expo), 0)
    IN  IF low \in {<<"i","n","f">>, <<"i","n","f","i","n","i","t","y">>,
                    <<"n","a","n">>}
        THEN Parsed(SpecialFloatV(sg, low))
        ELSE IF mantOk /\ expOk
        THEN Parsed(FloatV(sg * DigitsValue(ip \o fp, 0),
                           expVal - NumDigits(fp)))
        ELSE Fail

\* ------------------------------------------------------- datetime.strptime
\* One directive of a strptime format matches these texts (the regular
\* expressions of Python's _strptime.TimeRE).
FieldOK(kind, f) ==
    LET n  == Len(f)
        c1 == f[1]
        c2 == f[2]
    IN  CASE kind = "%Y" -> n = 4 /\ \A i \in 1..4 : f[i] \in Digits
          [] kind = "%m" -> \/ n = 2 /\ c1 = "1" /\ c2 \in {"0", "1", "2"}
                            \/ n = 2 /\ c1 = "0" /\ c2 \in Digits \ {"0"}
                            \/ n = 1 /\ c1 \in Digits \ {"0"}
          [] kind = "%d" -> \/ n = 2 /\ c1 = "3" /\ c2 \in {"0", "1"}
                            \/ n = 2 /\ c1 \in {"1", "2"} /\ c2 \in Digits
                            \/ n = 2 /\ c1 = "0" /\ c2 \in Digits \ {"0"}
                            \/ n = 1 /\ c1 \in Digits \ {"0"}
                            \/ n = 2 /\ c1 = " " /\ c2 \in Digits \ {"0"}
          [] kind = "%H" -> \/ n = 2 /\ c1 = "2" /\ c2 \in {"0", "1", "2", "3"}
                            \/ n = 2 /\ c1 \in {"0", "1"} /\ c2 \in Digits
                            \/ n = 1 /\ c1 \in Digits
          [] kind = "%M" -> \/ n = 2 /\ c1 \in {"0","1","2","3","4","5"}
                                   /\ c2 \in Digits
                            \/ n = 1 /\ c1 \in Digits
          [] kind = "%S" -> \/ n = 2 /\ c1 = "6" /\ c2 \in {"0", "1"}
                            \/ n = 2 /\ c1 \in {"0","1","2","3","4","5"}
                                   /\ c2 \in Digits
                            \/ n = 1 /\ c1 \in Digits

Directives == {"%Y", "%m", "%d", "%H", "%M", "%S"}

\* The field values of every way txt matches the format fmt as a whole
\* (a blank of the format matches one or more blanks of the text).
RECURSIVE Matches(_, _)
Matches(txt, fmt) ==
    IF fmt = <<>> THEN (IF txt = <<>> THEN {<<>>} ELSE {})
    ELSE LET p    == Head(fmt)
             rest(k) == Matches(SubSeq(txt, k + 1, Len(txt)), Tail(fmt))
         IN  IF p \in Directives
             THEN UNION { { <<DigitsValue(Strip(SubSeq(txt, 1, k)), 0)>> \o r
                            : r \in rest(k) }
                          : k \in { j \in 1..Len(txt) :
                                      j <= 4 /\ FieldOK(p, SubSeq(txt, 1, j)) } }
             ELSE IF p = " "
             THEN UNION { rest(k) : k \in { j \in 1..Len(txt) :
                                      \A i \in 1..j : txt[i] \in Whitespace } }
             ELSE IF txt # <<>> /\ Head(txt) = p THEN rest(1)
             ELSE {}

IsLeap(y) == (y % 4 = 0 /\ y % 100 # 0) \/ y % 400 = 0

DaysIn(y, m) ==
    IF m = 2 THEN (IF IsLeap(y) THEN 29 ELSE 28)
    ELSE IF m \in {4, 6, 9, 11} THEN 30 ELSE 31

\* datetime(y, m, d, H, M, S) raises ValueError outside these ranges
ValidDate(y, m, d, sec) == y >= 1 /\ d <= DaysIn(y, m) /\ sec <= 59

\* datetime.strptime(txt, fmt); order gives the place of year, month, day
\* (and hour, minute, second when the format has them) among the fields
Strptime(txt, fmt, order) ==
    LET ms == Matches(txt, fmt)
    IN  IF ms = {} THEN Fail
        ELSE LET f   == CHOOSE x \in ms : TRUE
                 y   == f[order[1]]
                 m   == f[order[2]]
                 d   == f[order[3]]
                 hms == Len(order) = 6
                 sec == IF hms THEN f[order[6]] ELSE 0
                 tod == IF hms
                        THEN f[order[4]] * 3600 + f[order[5]] * 60 + sec
                        ELSE 0
             IN  IF ValidDate(y, m, d, sec)
                 THEN Parsed(DateV(y * 10000 + m * 100 + d, tod))
                 ELSE Fail

\* the formats of _smart_convert, in the order it tries them
DateFormats ==
    << [fmt |-> <<"%Y", "-", "%m", "-", "%d">>, order |-> <<1, 2, 3>>],
       [fmt |-> <<"%m", "/", "%d", "/", "%Y">>, order |-> <<3, 1, 2>>],
       [fmt |-> <<"%d", "/", "%m", "/", "%Y">>, order |-> <<3, 2, 1>>],
       [fmt |-> <<"%Y", "-", "%m", "-", "%d", " ", "%H", ":", "%M", ":", "%S">>,
        order |-> <<1, 2, 3, 4, 5, 6>>] >>

RECURSIVE TryFormats(_, _)
TryFormats(txt, i) ==
    IF i > Len(DateFormats) THEN Fail
    ELSE LET r == Strptime(txt, DateFormats[i].fmt, DateFormats[i].order)
         IN  IF r.ok THEN r ELSE TryFormats(txt, i + 1)

\* ------------------------------------------------------------ _smart_convert
TrueWords == { <<"t","r","u","e">>, <<"y","e","s">>, <<"y">>, <<"1">>,
               <<"o","n">> }

FalseWords == { <<"f","a","l","s","e">>, <<"n","o">>, <<"n">>, <<"0">>,
                <<"o","f","f">> }

\* lines 286-290: membership of the lowered text in the word lists
BoolRule(value) ==
    IF Lower(value) \in TrueWords THEN Parsed(BoolV(TRUE))
    ELSE IF Lower(value) \in FalseWords THEN Parsed(BoolV(FALSE))
    ELSE Fail

\* lines 293-297: a trailing % and a body float() accepts
PercentRule(value) ==
    IF value # <<>> /\ value[Len(value)] = "%"
    THEN LET r == ParseFloat(SubSeq(value, 1, Len(value) - 1))
         IN  IF r.ok THEN Parsed(DivHundred(r.v)) ELSE Fail
    ELSE Fail

\* lines 300-308: commas removed, int() without a point, float() with one
NumberRule(value) ==
    LET clean_value == Remove(value, ",")
    IN  IF ~Contains(clean_value, ".") THEN ParseInt(clean_value)
        ELSE ParseFloat(clean_value)

\* lines 311-321: at least 8 characters with a - or a /, first format to parse
DateRule(value) ==
    IF Len(value) >= 8 /\ (Contains(value, "-") \/ Contains(value, "/"))
    THEN TryFormats(value, 1)
    ELSE Fail

\* the value of the first attempt that did not raise, else the text itself
FirstOk(first, second, third, fourth, text) ==
    IF first.ok THEN first.v
    ELSE IF second.ok THEN second.v
    ELSE IF third.ok THEN third.v
    ELSE IF fourth.ok THEN fourth.v
    ELSE text

\* the same rules with the number tried before the boolean words
SmartConvertNumberFirst(value) ==
    IF value = <<>> THEN NoneV
    ELSE FirstOk(NumberRule(value), BoolRule(value), PercentRule(value),
                 DateRule(value), StrV(value))

\* an exception that leaves _smart_convert
RaisedV == [t |-> "raise", n |-> 0, e |-> 0, s |-> <<>>]

\* the same rules without the except clause of lines 296-297: a body that
\* float() rejects ends the call
SmartConvertPercentUncaught(value) ==
    IF value = <<>> THEN NoneV
    ELSE IF ~BoolRule(value).ok /\ value[Len(value)] = "%"
              /\ ~PercentRule(value).ok
    THEN RaisedV
    ELSE FirstOk(BoolRule(value), PercentRule(value), NumberRule(value),
                 DateRule(value), StrV(value))

\* _smart_convert, lines 282-324
SmartConvert(value) ==
    IF value = <<>> THEN NoneV
    ELSE FirstOk(BoolRule(value), PercentRule(value), NumberRule(value),
                 DateRule(value), StrV(value))

\* -------------------------------------------------------- inputs of coerce
Alphabet == {"0", "1", "5", "y", "N", "%", ".", ",", "-", "e", "_", " "}

RECURSIVE TextsOfLen(_)
TextsOfLen(k) ==
    IF k = 0 THEN {<<>>}
    ELSE { <<c>> \o w : c \in Alphabet, w \in TextsOfLen(k - 1) }

ShortTexts == UNION { TextsOfLen(k) : k \in 0..MaxLen }

\* longer texts: the word lists, special floats, dates of every format
LongTexts ==
    { <<"t","r","u","e">>, <<"T","r","u","e">>, <<"y","e","s">>,
      <<"f","a","l","s","e">>, <<"O","F","F">>, <<"o","n">>, <<"n","o">>,
      <<"h","e","l","l","o">>,
      <<"4","5",".","6","%">>, <<"1",",","2","3","4","%">>,
      <<"n","a","n","%">>, <<"i","n","f","%">>, <<"i","n","f">>,
      <<"1",",","2","3","4",".","5">>, <<"1",",","2","3","4">>,
      <<"-","1","2","3","4","5","6","7">>,
      <<"1","2","3","4","5","6","7","8","-">>,
      <<"2","0","2","4","-","0","1","-","0","3">>,
      <<"2","0","2","4","-","1","-","3">>,
      <<"2","0","2","4","-","1","-"," ","3">>,
      <<"2","0","2","3","-","0","2","-","2","9">>,
      <<"2","0","2","4","-","0","2","-","2","9">>,
      <<"2","0","2","4","-","1","3","-","0","1">>,
      <<"0","0","0","0","-","0","1","-","0","1">>,
      <<"0","1","/","0","2","/","2","0","2","4">>,
      <<"1","3","/","0","2","/","2","0","2","4">>,
      <<"3","1","/","0","4","/","2","0","2","4">>,
      <<"1","/","1","/","2","0","2","4">>,
      <<"1","-","1","-","2","0","2","4">>,
      <<"2","0","2","4","-","0","1","-","0","3"," ","1","0",":","0","0",":","0","0">>,
      <<"2","0","2","4","-","0","1","-","0","3"," ","1","0",":","0","0",":","6","0">>,
      <<"2","0","2","4","-","0","1","-","0","3"," ","2","4",":","0","0",":","0","0">>,
      <<"2","0","2","4","-","0","1","-","0","3","x">> }

CoerceInputs == ShortTexts \cup LongTexts

\* ------------------------------------------------------------------- rows
\* A row is a Python dict in insertion order: a sequence of [k, v] with
\* distinct keys.  Keys are texts; the key None of csv.DictReader's restkey
\* is NoneKey.
NoneKey == <<"None">>

ValueKey == <<"v","a","l","u","e">>

Keys(row) == [i \in 1..Len(row) |-> row[i].k]

KeySet(row) == { row[i].k : i \in 1..Len(row) }

HasKey(row, key) == key \in KeySet(row)

\* row.get(key, None)
RowGet(row, key) ==
    IF HasKey(row, key)
    THEN row[CHOOSE i \in 1..Len(row) : row[i].k = key].v
    ELSE NoneV

\* d[key] = val
DictSet(row, key, val) ==
    IF HasKey(row, key)
    THEN [i \in 1..Len(row) |->
            IF row[i].k = key THEN [k |-> key, v |-> val] ELSE row[i]]
    ELSE Append(row, [k |-> key, v |-> val])

\* a list of texts kept as one value (the restkey list of csv.DictReader)
ListV(items) == [t |-> "list", n |-> Len(items), e |-> 0, s |-> <<>>]

\* ------------------------------------------------------ _convert_row_types
\* lines 261-267: None and '' become None, a text is stripped and coerced,
\* anything else is kept
ConvertValue(val) ==
    IF val.t = "NoneType" \/ (val.t = "str" /\ val.s = <<>>) THEN NoneV
    ELSE IF val.t = "str" THEN SmartConvert(Strip(val.s))
    ELSE val

RECURSIVE ConvertRowFrom(_, _, _)
ConvertRowFrom(row, i, converted) ==
    IF i > Len(row) THEN converted
    ELSE ConvertRowFrom(row, i + 1,
                        DictSet(converted, row[i].k, ConvertValue(row[i].v)))

ConvertRowTypes(row) == ConvertRowFrom(row, 1, <<>>)

\* --------------------------------------------------------------- csv module
\* csv.reader on one line: the fields between the delimiters; an empty line
\* is the empty list (quoting is not modelled)
RECURSIVE SplitLine(_, _)
SplitLine(line, delimiter) ==
    LET pos == FirstOf(line, {delimiter})
    IN  IF pos = 0 THEN <<line>>
        ELSE <<SubSeq(line, 1, pos - 1)>>
             \o SplitLine(SubSeq(line, pos + 1, Len(line)), delimiter)

ReadLine(line, delimiter) ==
    IF line = <<>> THEN <<>> ELSE SplitLine(line, delimiter)

\* csv.DictReader.__next__ on one record: zip with the field names, the
\* surplus under restkey None, the missing keys with restval None
RECURSIVE ZipRow(_, _, _, _)
ZipRow(fieldnames, rec, i, d) ==
    IF i > Len(fieldnames) \/ i > Len(rec) THEN d
    ELSE ZipRow(fieldnames, rec, i + 1, DictSet(d, fieldnames[i], StrV(rec[i])))

RECURSIVE FillRow(_, _, _)
FillRow(fieldnames, i, d) ==
    IF i > Len(fieldnames) THEN d
    ELSE FillRow(fieldnames, i + 1, DictSet(d, fieldnames[i], NoneV))

DictRow(fieldnames, rec) ==
    LET d  == ZipRow(fieldnames, rec, 1, <<>>)
        lf == Len(fieldnames)
        lr == Len(rec)
    IN  IF lf < lr THEN DictSet(d, NoneKey, ListV(SubSeq(rec, lf + 1, lr)))
        ELSE IF lf > lr THEN FillRow(fieldnames, lr + 1, d)
        ELSE d

\* csv.DictReader over the lines of a file: the first record names the
\* fields (none when that line is empty), later empty records are skipped
DictReader(lines, delimiter) ==
    LET recs == SelectSeq([i \in 1..(Len(lines) - 1) |->
                             ReadLine(lines[i + 1], delimiter)],
                          LAMBDA r : r # <<>>)
    IN  IF lines = <<>> THEN <<>>
        ELSE [i \in 1..Len(recs) |-> DictRow(ReadLine(lines[1], delimiter), recs[i])]

ConvertRows(rows) == [i \in 1..Len(rows) |-> ConvertRowTypes(rows[i])]

\* -------------------------------------------------------------------- files
\* A file: its byte size and modification time (stat), and its content.
\*   kind "text": lines, the texts between the line breaks; sniff is the
\*                delimiter csv.Sniffer finds, "" when it raises csv.Error
\*   kind "json": doc, the value json.load returns; valid is FALSE when
\*                json.load raises
\* A JSON value is [isMap, fields, v]: a mapping with its fields, or v.
\* the default of max_size_mb, line 57
MaxSizeMb == 100

\* line 66
MaxSizeBytes == MaxSizeMb * 1024 * 1024

Prim(val) == [isMap |-> FALSE, fields |-> <<>>, v |-> val]

Obj(fields) == [isMap |-> TRUE, fields |-> fields, v |-> NoneV]

LoadOk(rows) == [ok |-> TRUE, rows |-> rows]

LoadFail == [ok |-> FALSE, rows |-> <<>>]

\* _load_csv, lines 143-172: the sniffed delimiter, DictReader, coercion of
\* every row; csv.Error of the sniffer is raised after the last encoding,
\* and an empty result is the ValueError of line 170
NonEmpty(data) == IF data = <<>> THEN LoadFail ELSE LoadOk(data)

LoadCsv(file) ==
    IF file.kind # "text" \/ file.sniff = "" THEN LoadFail
    ELSE NonEmpty(ConvertRows(DictReader(file.lines, file.sniff)))

\* the mutant of LoadJson: the elements of an array that are no mapping
\* are left out
LoadJsonMappingsOnly(file) ==
    IF file.kind # "json" \/ ~file.valid THEN LoadFail
    ELSE IF file.shape = "array"
    THEN LoadOk([i \in 1..Len(SelectSeq(file.items, LAMBDA it : it.isMap)) |->
                   ConvertRowTypes(
                       SelectSeq(file.items, LAMBDA it : it.isMap)[i].fields)])
    ELSE IF file.items[1].isMap
    THEN LoadOk(<<ConvertRowTypes(file.items[1].fields)>>)
    ELSE LoadOk(<<<<[k |-> ValueKey, v |-> file.items[1].v]>>>>)

\* _load_json, lines 208-221
LoadJson(file) ==
    IF file.kind # "json" \/ ~file.valid THEN LoadFail
    ELSE IF file.shape = "array"
    THEN LoadOk([i \in 1..Len(file.items) |->
                   IF file.items[i].isMap
                   THEN ConvertRowTypes(file.items[i].fields)
                   ELSE <<[k |-> ValueKey, v |-> file.items[i].v]>>])
    ELSE IF file.items[1].isMap
    THEN LoadOk(<<ConvertRowTypes(file.items[1].fields)>>)
    ELSE LoadOk(<<<<[k |-> ValueKey, v |-> file.items[1].v]>>>>)

FlexDelimiters == <<",", ";", "\t", "|">>

\* line 190: rows with more than one column
Reasonable(data) == data # <<>> /\ Len(data[1]) > 1

\* lines 183-194: the rows of the first delimiter that gives reasonable data
RECURSIVE TryDelimiters(_, _)
TryDelimiters(file, i) ==
    IF i > Len(FlexDelimiters) THEN LoadFail
    ELSE IF Reasonable(ConvertRows(DictReader(file.lines, FlexDelimiters[i])))
    THEN LoadOk(ConvertRows(DictReader(file.lines, FlexDelimiters[i])))
    ELSE TryDelimiters(file, i + 1)

\* lines 197-199: one row per non-blank line, stripped
ValueRows(kept) ==
    LoadOk([i \in 1..Len(kept) |-> <<[k |-> ValueKey, v |-> StrV(kept[i])]>>])

StrippedLines(lines) ==
    SelectSeq([i \in 1..Len(lines) |-> Strip(lines[i])], LAMBDA l : l # <<>>)

OrValueRows(r, file) == IF r.ok THEN r ELSE ValueRows(StrippedLines(file.lines))

\* the mutant of LoadCsvFlexible: the delimiters are tried from the last
LoadCsvFlexibleLastFirst(file) ==
    IF file.kind # "text" THEN LoadFail
    ELSE IF \E i \in 1..Len(FlexDelimiters) :
              Reasonable(ConvertRows(DictReader(file.lines, FlexDelimiters[i])))
    THEN LoadOk(ConvertRows(DictReader(file.lines, FlexDelimiters[
             CHOOSE i \in 1..Len(FlexDelimiters) :
               /\ Reasonable(ConvertRows(DictReader(file.lines, FlexDelimiters[i])))
               /\ \A j \in (i + 1)..Len(FlexDelimiters) :
                    ~Reasonable(ConvertRows(DictReader(file.lines,
                                                       FlexDelimiters[j])))])))
    ELSE ValueRows(StrippedLines(file.lines))

\* _load_csv_flexible, lines 181-199
LoadCsvFlexible(file) ==
    IF file.kind # "text" THEN LoadFail
    ELSE OrValueRows(TryDelimiters(file, 1), file)

\* _load_excel / _load_parquet, lines 230-249: the records of the tabular
\* engine, kept as they are
LoadRecords(file) ==
    IF file.kind # "records" THEN LoadFail ELSE LoadOk(file.records)

\* lines 113-123: the loader the suffix selects
LoaderOf(suffix) ==
    CASE suffix = ".csv" -> "csv"
      [] suffix = ".json" -> "json"
      [] suffix \in {".xlsx", ".xls"} -> "excel"
      [] suffix = ".parquet" -> "parquet"
      [] OTHER -> "flexible"

RunLoader(loader, file) ==
    CASE loader = "csv" -> LoadCsv(file)
      [] loader = "json" -> LoadJson(file)
      [] loader \in {"excel", "parquet"} -> LoadRecords(file)
      [] OTHER -> LoadCsvFlexible(file)

Loaders == {"csv", "json", "excel", "parquet", "flexible"}

\* ------------------------------------------------------------ file system
\* A path is [dir, stem, suffix]; DataDir is self.data_dir.
DataDir == "data"

PathExtA == [dir |-> "ext", stem |-> "a", suffix |-> ".csv"]

PathDataA == [dir |-> "data", stem |-> "a", suffix |-> ".csv"]

PathDataB == [dir |-> "data", stem |-> "b", suffix |-> ".json"]

Paths == {PathExtA, PathDataA, PathDataB}

NoPath == [dir |-> "", stem |-> "", suffix |-> ""]

\* self.data_dir / file_path.name
InDataDir(path) == [path EXCEPT !.dir = DataDir]

TextFile(size, mtime, lines, sniff) ==
    [kind |-> "text", size |-> size, mtime |-> mtime, lines |-> lines,
     sniff |-> sniff, valid |-> FALSE, shape |-> "", items |-> <<>>]

JsonFile(size, mtime, shape, items) ==
    [kind |-> "json", size |-> size, mtime |-> mtime, lines |-> <<>>,
     sniff |-> "", valid |-> TRUE, shape |-> shape, items |-> items]

\* a,b / 1,2 / 3,4
FileA == TextFile(12, 1, << <<"a",",","b">>, <<"1",",","2">>,
                            <<"3",",","4">> >>, ",")

\* a,b / x,  : a file of exactly the maximum size
FileB == TextFile(MaxSizeBytes, 2, << <<"a",",","b">>, <<"x",",">> >>, ",")

\* [{"a": "9"}, {"c": "z"}]
FileJ == JsonFile(24, 3, "array",
                  << Obj(<<[k |-> <<"a">>, v |-> StrV(<<"9">>)]>>),
                     Obj(<<[k |-> <<"c">>, v |-> StrV(<<"z">>)]>>) >>)

\* one word: no delimiter for the sniffer, no JSON value
FileBad == TextFile(5, 4, << <<"h","e","l","l","o">> >>, "")

\* one byte over the maximum size
FileBig == TextFile(MaxSizeBytes + 1, 5, << <<"h","e","l","l","o">> >>, "")

Files == <<FileA, FileB, FileJ, FileBad, FileBig>>

Absent == 0

FileIds == 1..Len(Files)

\* what each loader returns on each file of the model
LoadTable == [f \in FileIds |-> [l \in Loaders |-> RunLoader(l, Files[f])]]

\* what the environment puts under each path: delimited tables and a text
\* without delimiter under .csv, a JSON document under .json, a file over
\* the maximum size under either suffix
Candidates(path) ==
    IF path = PathExtA THEN {1, 5}
    ELSE IF path = PathDataA THEN {1, 2, 4}
    ELSE {3, 5}

\* names a caller passes; NoName is the default None (and '')
NoName == ""

Names == {"a"}

\* ---------------------------------------------------------------- variables
VARIABLES
    fs,            \* the file system: path -> file id, or Absent
    datasets,      \* self.datasets: name -> rows
    dataset_info,  \* self.dataset_info: name -> DatasetInfo
    cache,         \* the lru_cache of get_dataset: [name, rows], oldest first
    lastOp,        \* the last call: what it was given and what it returned
    loaded,        \* name -> the rows of its last load that returned
    steps,         \* calls and file system changes so far
    wpc,           \* each writer thread's place in load_dataset
    wloc,          \* each writer thread's locals: dataset_name, file_path, data
    rpc,           \* the reader thread's place
    robs,          \* what the reader's get_dataset and get_dataset_info returned
    owner,         \* name -> the writers whose rows and whose info are stored
    cin,           \* the text handed to _smart_convert
    cout,          \* the value it returned
    cdone,         \* whether it has returned
    call,          \* the input of a call made on its own: a table, a column
    ret,           \* what the calls on that input returned
    visualization_registry,  \* VisualizationEngine: kind -> handler class
    registered,    \* kind -> the handler class last registered for it, or "none"
    input_rows     \* the row list a caller hands to create_visualization

rvars == <<fs, datasets, dataset_info, cache, lastOp, loaded, steps>>

cvars == <<cin, cout, cdone, call, ret>>

tvars == <<wpc, wloc, rpc, robs, owner>>

evars == <<visualization_registry, registered, input_rows>>

vars == <<fs, datasets, dataset_info, cache, lastOp, loaded, steps, wpc, wloc,
          rpc, robs, owner, cin, cout, cdone, call, ret,
          visualization_registry, registered, input_rows>>

\* ------------------------------------------------------------ dict helpers
EmptyDict == [x \in {} |-> 0]

\* d[key] = val
Put(d, key, val) ==
    [x \in DOMAIN d \cup {key} |-> IF x = key THEN val ELSE d[x]]

\* ------------------------------------------------ VisualizationEngine state
\* the values of VisualizationType, lines 28-51
VisualizationTypes ==
    {"bar", "line", "scatter", "pie", "histogram", "map", "choropleth",
     "heatmap", "deckgl_overlay", "arc_layer", "scatterplot_layer",
     "hexagon_layer", "candlestick", "volume", "ohlc", "custom"}

\* VisualizationEngine.__init__, lines 355-361
BuiltInRegistry ==
    [k \in {"bar", "map", "deckgl_overlay", "arc_layer", "scatterplot_layer"} |->
       CASE k = "bar" -> "BarChartVisualization"
         [] k = "map" -> "MapVisualization"
         [] OTHER -> "DeckGLVisualization"]

\* the engine as constructed, no row list handed over yet
EngineAtRest ==
    /\ visualization_registry = BuiltInRegistry
    /\ registered = [k \in VisualizationTypes |-> "none"]
    /\ input_rows = <<>>

\* ------------------------------------------------------ _create_dataset_info
\* line 340
SampleSize == 10

Min(a, b) == IF a < b THEN a ELSE b

\* line 342: the type names of a column over the leading sample
SampleTypes(data, col) ==
    [i \in 1..Min(SampleSize, Len(data)) |-> RowGet(data[i], col).t]

Count(seq, x) == Cardinality({i \in 1..Len(seq) : seq[i] = x})

\* line 344, max(set(types), key=types.count): a type name of maximal count;
\* among several the iteration order of the set decides, which the hash seed
\* of the process fixes, so each of them is a possible outcome
DominantTypes(types) ==
    { types[i] : i \in { j \in 1..Len(types) :
                           \A k \in 1..Len(types) :
                               Count(types, types[k]) <= Count(types, types[j]) } }

RECURSIVE TypeMaps(_, _, _)
TypeMaps(data, columns, i) ==
    IF i > Len(columns) THEN {<<>>}
    ELSE { <<[k |-> columns[i], v |-> ty]>> \o rest :
             ty \in DominantTypes(SampleTypes(data, columns[i])),
             rest \in TypeMaps(data, columns, i + 1) }

\* lines 333-337
ColumnsOf(data) == IF data = <<>> THEN <<>> ELSE Keys(data[1])

\* the data_types the call may compute
DataTypeChoices(data) == TypeMaps(data, ColumnsOf(data), 1)

\* lines 346-355
CreateDatasetInfo(name, file_path, file, data, data_types) ==
    [name          |-> name,
     file_path     |-> file_path,
     size_bytes    |-> file.size,
     last_modified |-> file.mtime,
     row_count     |-> Len(data),
     column_count  |-> Len(ColumnsOf(data)),
     columns       |-> ColumnsOf(data),
     data_types    |-> data_types]

NoInfo ==
    [name |-> "", file_path |-> NoPath, size_bytes |-> 0, last_modified |-> 0,
     row_count |-> 0, column_count |-> 0, columns |-> <<>>, data_types |-> <<>>]

\* ------------------------------------------------------------- load_dataset
\* the last call or file system change: path is the file_path the call was
\* given, res is "ok" or the error raised, loader the loader that ran, size
\* the size line 105 read
Result(op, path, name, res, loader, size, rows, info) ==
    [op |-> op, path |-> path, name |-> name, res |-> res, loader |-> loader,
     size |-> size, rows |-> rows, info |-> info]

Exists(path) == fs[path] # Absent

\* lines 99-103 without the first test: the file in data_dir only
ResolveInDataDir(file_path) == InDataDir(file_path)

\* lines 99-103: the path itself, else the file of that name in data_dir
Resolve(file_path) ==
    IF Exists(file_path) THEN file_path ELSE InDataDir(file_path)

\* line 106 with >= for >
TooLargeAtLimit(file_size) == file_size >= MaxSizeBytes

\* line 106
TooLarge(file_size) == file_size > MaxSizeBytes

\* line 96
DatasetName(file_path, name) == IF name = NoName THEN file_path.stem ELSE name

\* lines 126-130 of load_dataset.  After line 126 either the stat of line
\* 349 raises FileNotFoundError, the file having been removed while the
\* call ran, or the metadata is stored with one outcome of line 344.
Store(op, given, dataset_name, path, file, loader, data) ==
    /\ datasets' = Put(datasets, dataset_name, data)
    /\ \/ /\ fs' = [fs EXCEPT ![path] = Absent]
          /\ lastOp' = Result(op, given, dataset_name, "FileNotFoundError",
                              loader, file.size, <<>>, NoInfo)
          /\ UNCHANGED <<dataset_info, loaded>>
       \/ \E data_types \in DataTypeChoices(data) :
             /\ dataset_info' =
                    Put(dataset_info, dataset_name,
                        CreateDatasetInfo(dataset_name, path, file, data,
                                          data_types))
             /\ lastOp' = Result(op, given, dataset_name, "ok", loader,
                                 file.size, data, NoInfo)
             /\ loaded' = Put(loaded, dataset_name, data)
             /\ UNCHANGED fs
    /\ UNCHANGED cache

\* lines 112-134: a loader that raises leaves everything as it was
Parse(op, given, dataset_name, path, file, loader, got) ==
    IF ~got.ok
    THEN /\ lastOp' = Result(op, given, dataset_name, "FormatError", loader,
                             file.size, <<>>, NoInfo)
         /\ UNCHANGED <<fs, datasets, dataset_info, cache, loaded>>
    ELSE Store(op, given, dataset_name, path, file, loader, got.rows)

\* lines 105-123: the size check, then the loader the suffix selects
CheckSize(op, given, dataset_name, path, file) ==
    IF TooLarge(file.size)
    THEN /\ lastOp' = Result(op, given, dataset_name, "SizeLimitError", "none",
                             file.size, <<>>, NoInfo)
         /\ UNCHANGED <<fs, datasets, dataset_info, cache, loaded>>
    ELSE Parse(op, given, dataset_name, path, file, LoaderOf(path.suffix),
               LoadTable[fs[path]][LoaderOf(path.suffix)])

\* lines 99-103 on the resolved path
CheckExists(op, given, dataset_name, path) ==
    IF ~Exists(path)
    THEN /\ lastOp' = Result(op, given, dataset_name, "FileNotFoundError",
                             "none", -1, <<>>, NoInfo)
         /\ UNCHANGED <<fs, datasets, dataset_info, cache, loaded>>
    ELSE CheckSize(op, given, dataset_name, path, Files[fs[path]])

\* load_dataset(file_path, name), lines 95-134
LoadDataset(op, file_path, name) ==
    CheckExists(op, file_path, DatasetName(file_path, name),
                Resolve(file_path))

Load(file_path, name) == LoadDataset("load", file_path, name)

\* reload_dataset reading the file of that name in data_dir only
ReloadFromDataDir(name) ==
    IF name \notin DOMAIN dataset_info
    THEN /\ lastOp' = Result("reload", NoPath, name, "KeyError", "none", -1,
                             <<>>, NoInfo)
         /\ UNCHANGED <<fs, datasets, dataset_info, cache, loaded>>
    ELSE CheckExists("reload", dataset_info[name].file_path, name,
                     InDataDir(dataset_info[name].file_path))

\* reload_dataset(name), lines 416-421
Reload(name) ==
    IF name \notin DOMAIN dataset_info
    THEN /\ lastOp' = Result("reload", NoPath, name, "KeyError", "none", -1,
                             <<>>, NoInfo)
         /\ UNCHANGED <<fs, datasets, dataset_info, cache, loaded>>
    ELSE LoadDataset("reload", dataset_info[name].file_path, name)

\* ---------------------------------------------------- get_dataset, lru_cache
\* line 357
CacheMaxSize == 32

Cached(name) == \E i \in 1..Len(cache) : cache[i].name = name

CachedRows(name) ==
    cache[CHOOSE i \in 1..Len(cache) : cache[i].name = name].rows

\* the entry of name moved to the most recently used end
Touch(name) ==
    SelectSeq(cache, LAMBDA c : c.name # name)
        \o <<[name |-> name, rows |-> CachedRows(name)]>>

\* a new entry; beyond maxsize the least recently used one is dropped
Remember(name, rows) ==
    LET grown == Append(cache, [name |-> name, rows |-> rows])
    IN  IF Len(grown) > CacheMaxSize THEN Tail(grown) ELSE grown

\* get_dataset(name), lines 357-378: a memoised call returns what the first
\* call returned; a call that raises is not memoised
GetDataset(name) ==
    /\ IF Cached(name)
       THEN /\ lastOp' = Result("get", NoPath, name, "ok", "none", -1,
                                CachedRows(name), NoInfo)
            /\ cache' = Touch(name)
       ELSE IF name \notin DOMAIN datasets
       THEN /\ lastOp' = Result("get", NoPath, name, "KeyError", "none", -1,
                                <<>>, NoInfo)
            /\ UNCHANGED cache
       ELSE /\ lastOp' = Result("get", NoPath, name, "ok", "none", -1,
                                datasets[name], NoInfo)
            /\ cache' = Remember(name, datasets[name])
    /\ UNCHANGED <<fs, datasets, dataset_info, loaded>>

\* get_dataset_info(name), lines 387-390
GetDatasetInfo(name) ==
    /\ IF name \notin DOMAIN dataset_info
       THEN lastOp' = Result("info", NoPath, name, "KeyError", "none", -1,
                            <<>>, NoInfo)
       ELSE lastOp' = Result("info", NoPath, name, "ok", "none", -1, <<>>,
                             dataset_info[name])
    /\ UNCHANGED <<fs, datasets, dataset_info, cache, loaded>>

\* --------------------------------------------------------- get_column_stats
\* line 432: the values of the column that are not None, in row order
RECURSIVE ColumnValues(_, _, _)
ColumnValues(data, column_name, i) ==
    IF i > Len(data) THEN <<>>
    ELSE IF RowGet(data[i], column_name).t = "NoneType"
    THEN ColumnValues(data, column_name, i + 1)
    ELSE <<RowGet(data[i], column_name)>>
         \o ColumnValues(data, column_name, i + 1)

\* isinstance(v, (int, float)): bool is a subclass of int
IsNumber(v) == v.t \in {"int", "float", "bool"}

IsStr(v) == v.t = "str"

RECURSIVE Pow10(_)
Pow10(k) == IF k = 0 THEN 1 ELSE 10 * Pow10(k - 1)

\* the least exponent among finite numbers, and a number in units of 10^e0
RECURSIVE MinExp(_, _)
MinExp(values, i) ==
    IF i > Len(values) THEN 0
    ELSE Min(values[i].e, MinExp(values, i + 1))

Scaled(v, e0) == v.n * Pow10(v.e - e0)

NumLess(a, b) == Scaled(a, Min(a.e, b.e)) < Scaled(b, Min(a.e, b.e))

NumEq(a, b) == Scaled(a, Min(a.e, b.e)) = Scaled(b, Min(a.e, b.e))

\* min(values) and max(values): the first of the least, of the greatest
MinOf(values) ==
    values[CHOOSE j \in 1..Len(values) :
             /\ \A k \in 1..Len(values) : ~NumLess(values[k], values[j])
             /\ \A k \in 1..(j - 1) : NumLess(values[j], values[k])]

MaxOf(values) ==
    values[CHOOSE j \in 1..Len(values) :
             /\ \A k \in 1..Len(values) : ~NumLess(values[j], values[k])
             /\ \A k \in 1..(j - 1) : NumLess(values[k], values[j])]

RECURSIVE SumScaled(_, _, _)
SumScaled(values, e0, i) ==
    IF i > Len(values) THEN 0
    ELSE Scaled(values[i], e0) + SumScaled(values, e0, i + 1)

\* sum(values) / len(values) as the quotient num * 10^e / den (the rounding
\* of the double is not modelled)
MeanOf(values, e0) ==
    [num |-> SumScaled(values, e0, 1), den |-> Len(values), e |-> e0]

\* len(set(values)) on numbers: equal numbers of any type are one element
UniqueNumbers(values) ==
    Cardinality({ j \in 1..Len(values) :
                    \A k \in 1..(j - 1) : ~NumEq(values[k], values[j]) })

RECURSIVE TotalLength(_, _)
TotalLength(values, i) ==
    IF i > Len(values) THEN 0
    ELSE Len(values[i].s) + TotalLength(values, i + 1)

\* line 457, max(set(values), key=values.count): a value of maximal count;
\* among several the iteration order of the set decides
MostCommonChoices(values) ==
    { values[j] : j \in { i \in 1..Len(values) :
                            \A k \in 1..Len(values) :
                                Count(values, values[k])
                                    <= Count(values, values[i]) } }

NoMean == [num |-> 0, den |-> 1, e |-> 0]

\* the dictionary get_column_stats returns: kind names the branch taken
StatsDict(kind, count, null_count, data_type, lo, hi, mean, unique_count, avg_length, most_common) ==
    [kind |-> kind, count |-> count, null_count |-> null_count,
     data_type |-> data_type, min |-> lo, max |-> hi, mean |-> mean,
     unique_count |-> unique_count, avg_length |-> avg_length,
     most_common |-> most_common]

\* line 435
NoDataStats ==
    StatsDict("error", 0, 0, "", NoneV, NoneV, NoMean, 0, NoMean, NoneV)

\* an exception left get_column_stats
RaisedStats ==
    StatsDict("raise", 0, 0, "", NoneV, NoneV, NoMean, 0, NoMean, NoneV)

\* lines 434-460 on the gathered values of n rows: every dictionary the
\* call may return
StatsOfValues(values, n) ==
    IF values = <<>> THEN {NoDataStats}
    ELSE IF \A i \in 1..Len(values) : IsNumber(values[i])
    THEN {StatsDict("numeric", Len(values), n - Len(values), values[1].t,
                    MinOf(values), MaxOf(values),
                    MeanOf(values, MinExp(values, 1)), UniqueNumbers(values),
                    NoMean, NoneV)}
    ELSE IF \A i \in 1..Len(values) : IsStr(values[i])
    THEN { StatsDict("text", Len(values), n - Len(values), values[1].t,
                     NoneV, NoneV, NoMean,
                     Cardinality({ values[i] : i \in 1..Len(values) }),
                     [num |-> TotalLength(values, 1), den |-> Len(values),
                      e |-> 0],
                     mc) : mc \in MostCommonChoices(values) }
    ELSE {StatsDict("mixed", Len(values), n - Len(values), values[1].t,
                    NoneV, NoneV, NoMean, 0, NoMean, NoneV)}

\* lines 432-460 on the rows get_dataset returned
StatsChoices(data, column_name) ==
    StatsOfValues(ColumnValues(data, column_name, 1), Len(data))

\* the return of get_column_stats(dataset_name, column_name) on rows
StatsReturn(dataset_name, column_name, data) ==
    /\ ret' \in StatsChoices(data, column_name)
    /\ call' = [fn |-> "column_stats", name |-> dataset_name,
                column |-> column_name]
    /\ lastOp' = Result("stats", NoPath, dataset_name, "ok", "none", -1, data,
                        NoInfo)

\* get_column_stats(dataset_name, column_name), lines 431-460: the rows
\* come from the memoised get_dataset
GetColumnStats(dataset_name, column_name) ==
    /\ IF Cached(dataset_name)
       THEN /\ StatsReturn(dataset_name, column_name, CachedRows(dataset_name))
            /\ cache' = Touch(dataset_name)
       ELSE IF dataset_name \notin DOMAIN datasets
       THEN /\ ret' = RaisedStats
            /\ call' = [fn |-> "column_stats", name |-> dataset_name,
                        column |-> column_name]
            /\ lastOp' = Result("stats", NoPath, dataset_name, "KeyError",
                                "none", -1, <<>>, NoInfo)
            /\ UNCHANGED cache
       ELSE /\ StatsReturn(dataset_name, column_name, datasets[dataset_name])
            /\ cache' = Remember(dataset_name, datasets[dataset_name])
    /\ UNCHANGED <<fs, datasets, dataset_info, loaded>>

\* --------------------------------------------- GET /api/data/{dataset_name}
\* the body of an answer with HTTP 200, lines 193-198
DataResponse(dataset_name, data, timestamp) ==
    [fn |-> "get_data", status |-> 200, data |-> data, count |-> Len(data),
     dataset |-> dataset_name, timestamp |-> timestamp]

\* HTTPException(status_code=...), lines 200-206
HttpError(status) ==
    [fn |-> "get_data", status |-> status, data |-> <<>>, count |-> 0,
     dataset |-> "", timestamp |-> 0]

\* the except clause that takes each error, lines 199-206: only
\* FileNotFoundError is answered with 404
StatusOf(error) == IF error = "FileNotFoundError" THEN 404 ELSE 500

\* lines 193-198 with the rows get_dataset returned: get_last_modified
\* reads dataset_info (line 406) and raises KeyError for a name without one
Answer(dataset_name, data) ==
    /\ ret' = IF dataset_name \in DOMAIN dataset_info
              THEN DataResponse(dataset_name, data,
                                dataset_info[dataset_name].last_modified)
              ELSE HttpError(StatusOf("KeyError"))
    /\ lastOp' = Result("route", NoPath, dataset_name,
                        IF dataset_name \in DOMAIN dataset_info
                        THEN "ok" ELSE "KeyError",
                        "none", -1, data, NoInfo)

\* get_data(dataset_name), dashboard.py lines 183-206, over the memoised
\* get_dataset
GetData(dataset_name) ==
    /\ call' = [fn |-> "get_data", name |-> dataset_name]
    /\ IF Cached(dataset_name)
       THEN /\ Answer(dataset_name, CachedRows(dataset_name))
            /\ cache' = Touch(dataset_name)
       ELSE IF dataset_name \notin DOMAIN datasets
       THEN /\ ret' = HttpError(StatusOf("KeyError"))
            /\ lastOp' = Result("route", NoPath, dataset_name, "KeyError",
                                "none", -1, <<>>, NoInfo)
            /\ UNCHANGED cache
       ELSE /\ Answer(dataset_name, datasets[dataset_name])
            /\ cache' = Remember(dataset_name, datasets[dataset_name])
    /\ UNCHANGED <<fs, datasets, dataset_info, loaded>>

\* -------------------------------------------------------------- environment
\* the file system collaborator: a file is written or replaced, or removed
FsWrite(path, f) ==
    /\ f \in Candidates(path)
    /\ fs[path] # f
    /\ fs' = [fs EXCEPT ![path] = f]
    /\ lastOp' = Result("write", path, "", "ok", "none", -1, <<>>, NoInfo)
    /\ UNCHANGED <<datasets, dataset_info, cache, loaded>>

FsDelete(path) ==
    /\ Exists(path)
    /\ fs' = [fs EXCEPT ![path] = Absent]
    /\ lastOp' = Result("delete", path, "", "ok", "none", -1, <<>>, NoInfo)
    /\ UNCHANGED <<datasets, dataset_info, cache, loaded>>

\* dataset names a call can name: the given names and the stems of the paths
DatasetNames == Names \cup { p.stem : p \in Paths }

\* ------------------------------------------------------------------ threads
\* load_dataset and reload_dataset called from several threads with no lock:
\* lines 126 and 127 are two statements, and the call of
\* _create_dataset_info between them reads the file's stat.
Writers == {"w1", "w2"}

NoLocals == [name |-> "", path |-> NoPath, fid |-> Absent, data |-> <<>>]

NoOwner == ""

ThreadsIdle ==
    /\ wpc = [w \in Writers |-> "idle"]
    /\ wloc = [w \in Writers |-> NoLocals]
    /\ rpc = "idle"
    /\ robs = [rows |-> <<>>, info |-> NoInfo]
    /\ owner = [n \in DatasetNames |-> [rows |-> NoOwner, info |-> NoOwner]]

\* lines 95-123 in thread w: the locals after the loader returned, or the
\* exception that ends the call
WParse(w, dataset_name, path, got) ==
    IF ~Exists(path) \/ TooLarge(Files[fs[path]].size) \/ ~got.ok
    THEN /\ wpc' = [wpc EXCEPT ![w] = "raised"]
         /\ UNCHANGED wloc
    ELSE /\ wpc' = [wpc EXCEPT ![w] = "loaded"]
         /\ wloc' = [wloc EXCEPT ![w] = [name |-> dataset_name, path |-> path,
                                         fid |-> fs[path], data |-> got.rows]]

WBegin(w, dataset_name, path) ==
    /\ wpc[w] = "idle"
    /\ WParse(w, dataset_name, path,
              IF Exists(path) THEN LoadTable[fs[path]][LoaderOf(path.suffix)]
              ELSE LoadFail)
    /\ UNCHANGED <<fs, datasets, dataset_info, cache, lastOp, loaded, steps,
                   rpc, robs, owner>>

\* thread w calls load_dataset(file_path, name)
WLoad(w, file_path, name) ==
    WBegin(w, DatasetName(file_path, name), Resolve(file_path))

\* thread w calls reload_dataset(name), lines 416-420
WReload(w, name) ==
    /\ name \in DOMAIN dataset_info
    /\ WBegin(w, name, Resolve(dataset_info[name].file_path))

\* line 126 in thread w
WStoreRows(w) ==
    /\ wpc[w] = "loaded"
    /\ datasets' = Put(datasets, wloc[w].name, wloc[w].data)
    /\ owner' = [owner EXCEPT ![wloc[w].name].rows = w]
    /\ wpc' = [wpc EXCEPT ![w] = "stored"]
    /\ UNCHANGED <<fs, dataset_info, cache, lastOp, loaded, steps, wloc, rpc,
                   robs>>

\* line 127 in thread w
WStoreInfo(w) ==
    /\ wpc[w] = "stored"
    /\ \E data_types \in DataTypeChoices(wloc[w].data) :
          dataset_info' =
              Put(dataset_info, wloc[w].name,
                  CreateDatasetInfo(wloc[w].name, wloc[w].path,
                                    Files[wloc[w].fid], wloc[w].data,
                                    data_types))
    /\ owner' = [owner EXCEPT ![wloc[w].name].info = w]
    /\ wpc' = [wpc EXCEPT ![w] = "returned"]
    /\ UNCHANGED <<fs, datasets, cache, lastOp, loaded, steps, wloc, rpc, robs>>

\* the reader thread: get_dataset(name), then get_dataset_info(name)
RGet(name) ==
    /\ rpc = "idle"
    /\ GetDataset(name)
    /\ robs' = [robs EXCEPT !.rows = lastOp'.rows]
    /\ rpc' = "got"
    /\ UNCHANGED <<steps, wpc, wloc, owner>>

RInfo(name) ==
    /\ rpc = "got"
    /\ GetDatasetInfo(name)
    /\ robs' = [robs EXCEPT !.info = lastOp'.info]
    /\ rpc' = "idle"
    /\ UNCHANGED <<steps, wpc, wloc, owner>>

\* ------------------------------------------------------------------ tables
\* no call made on its own
NoCall == [fn |-> "none"]

\* the registry, the threads and the coercion left as constructed
AtRest ==
    /\ fs = [p \in Paths |-> Absent]
    /\ datasets = EmptyDict
    /\ dataset_info = EmptyDict
    /\ cache = <<>>
    /\ lastOp = Result("init", NoPath, "", "ok", "none", -1, <<>>, NoInfo)
    /\ loaded = EmptyDict
    /\ steps = 0
    /\ ThreadsIdle
    /\ cin = <<>>
    /\ cout = NoneV
    /\ cdone = TRUE

\* A table of integers: column names and rows of values, written once as a
\* CSV file (a header line, one line of decimal literals per row) and once
\* as a JSON array of objects.
TableColumns == { << <<"a">> >>, << <<"a">>, <<"b">> >> }

TableValues == {0, 1, 2, 12, -3}

Tables ==
    UNION { UNION { [cols : {c}, rows : [1..k -> [1..Len(c) -> TableValues]]]
                    : k \in 0..MaxRows }
            : c \in TableColumns }

DigitChars == <<"0", "1", "2", "3", "4", "5", "6", "7", "8", "9">>

\* str(i) of an integer
RECURSIVE NatText(_)
NatText(i) ==
    IF i < 10 THEN <<DigitChars[i + 1]>>
    ELSE NatText(i \div 10) \o <<DigitChars[(i % 10) + 1]>>

IntText(i) == IF i < 0 THEN <<"-">> \o NatText(-i) ELSE NatText(i)

\* the fields of one line joined by commas
RECURSIVE JoinFields(_, _)
JoinFields(fields, i) ==
    IF i > Len(fields) THEN <<>>
    ELSE IF i = Len(fields) THEN fields[i]
    ELSE fields[i] \o <<",">> \o JoinFields(fields, i + 1)

TableLines(table) ==
    <<JoinFields(table.cols, 1)>>
      \o [i \in 1..Len(table.rows) |->
            JoinFields([j \in 1..Len(table.cols) |-> IntText(table.rows[i][j])],
                       1)]

\* line 156 on such a file: the comma when the sample holds one, csv.Error
\* when there is no character to split on
Sniff(lines) ==
    IF \E i \in 1..Len(lines) : Contains(lines[i], ",") THEN "," ELSE ""

CsvLines(lines) == TextFile(1, 1, lines, Sniff(lines))

CsvOf(table) == CsvLines(TableLines(table))

\* json.load of the array: one mapping per row, the values int
JsonOf(table) ==
    JsonFile(1, 1, "array",
             [i \in 1..Len(table.rows) |->
                Obj([j \in 1..Len(table.cols) |->
                       [k |-> table.cols[j], v |-> IntV(table.rows[i][j])]])])

NotRun == [ok |-> FALSE, rows |-> <<>>, run |-> FALSE]

Ran(got) == [ok |-> got.ok, rows |-> got.rows, run |-> TRUE]

\* _load_csv on the CSV file of the table
TableCsv ==
    /\ call.fn = "table"
    /\ ~ret.csv.run
    /\ ret' = [ret EXCEPT !.csv = Ran(LoadCsv(CsvOf(call.table)))]
    /\ UNCHANGED <<cin, cout, cdone, call>>
    /\ UNCHANGED evars
    /\ UNCHANGED rvars
    /\ UNCHANGED tvars

\* _load_json on the JSON file of the table
TableJson ==
    /\ call.fn = "table"
    /\ ~ret.json.run
    /\ ret' = [ret EXCEPT !.json = Ran(LoadJson(JsonOf(call.table)))]
    /\ UNCHANGED <<cin, cout, cdone, call>>
    /\ UNCHANGED evars
    /\ UNCHANGED rvars
    /\ UNCHANGED tvars

\* ----------------------------------------------------------------- columns
\* A generated column: the value each row holds under the key c, or
\* Missing for a row without that key.
Missing == [t |-> "missing", n |-> 0, e |-> 0, s |-> <<>>]

ColumnDomain ==
    {NoneV, Missing, IntV(1), IntV(2), IntV(3), FloatV(25, -1), BoolV(TRUE),
     StrV(<<"x">>), StrV(<<"y">>)}

ColumnKey == <<"c">>

OtherKey == <<"d">>

ColumnRows(column) ==
    [i \in 1..Len(column) |->
       IF column[i] = Missing THEN <<[k |-> OtherKey, v |-> IntV(7)]>>
       ELSE <<[k |-> ColumnKey, v |-> column[i]]>>]

\* lines 432-460 on the rows of the generated column
ColumnStats ==
    /\ call.fn = "column"
    /\ ret = NoCall
    /\ ret' \in StatsChoices(ColumnRows(call.column), ColumnKey)
    /\ UNCHANGED <<cin, cout, cdone, call>>
    /\ UNCHANGED evars
    /\ UNCHANGED rvars
    /\ UNCHANGED tvars

\* column names a caller of get_column_stats passes
StatsColumns == { <<"a">>, <<"b">>, <<"c">> }

\* ------------------------------------------------------------ specification
\* after __init__, lines 65-68: no dataset, no metadata, an empty cache
Init ==
    /\ EngineAtRest
    /\ fs \in [Paths -> FileIds \cup {Absent}]
    /\ \A p \in Paths : fs[p] # Absent => fs[p] \in Candidates(p)
    /\ datasets = EmptyDict
    /\ dataset_info = EmptyDict
    /\ cache = <<>>
    /\ lastOp = Result("init", NoPath, "", "ok", "none", -1, <<>>, NoInfo)
    /\ loaded = EmptyDict
    /\ steps = 0
    /\ ThreadsIdle
    /\ cin = <<>>
    /\ cout = NoneV
    /\ cdone = TRUE
    /\ call = NoCall
    /\ ret = NoCall

Step ==
    /\ steps < MaxSteps
    /\ steps' = steps + 1
    /\ UNCHANGED cvars
    /\ UNCHANGED evars
    /\ UNCHANGED tvars

Next ==
    \/ \E p \in Paths, n \in Names \cup {NoName} : Load(p, n) /\ Step
    \/ \E n \in DatasetNames : Reload(n) /\ Step
    \/ \E n \in DatasetNames : GetDataset(n) /\ Step
    \/ \E n \in DatasetNames : GetDatasetInfo(n) /\ Step
    \/ \E p \in Paths, f \in FileIds : FsWrite(p, f) /\ Step
    \/ \E p \in Paths : FsDelete(p) /\ Step

Spec == Init /\ [][Next]_vars

\* the coercion on its own: one text, one call
CoerceInit ==
    /\ EngineAtRest
    /\ cin \in CoerceInputs
    /\ cout = NoneV
    /\ cdone = FALSE
    /\ fs = [p \in Paths |-> Absent]
    /\ datasets = EmptyDict
    /\ dataset_info = EmptyDict
    /\ cache = <<>>
    /\ lastOp = Result("init", NoPath, "", "ok", "none", -1, <<>>, NoInfo)
    /\ loaded = EmptyDict
    /\ steps = 0
    /\ ThreadsIdle
    /\ call = NoCall
    /\ ret = NoCall

\* one call of _smart_convert
Coerce ==
    /\ ~cdone
    /\ cout' = SmartConvert(cin)
    /\ cdone' = TRUE
    /\ UNCHANGED <<cin, call, ret>>
    /\ UNCHANGED evars
    /\ UNCHANGED rvars
    /\ UNCHANGED tvars

CoerceNext == Coerce

SpecCoerce == CoerceInit /\ [][CoerceNext]_vars

\* the registry under threads: the files stay as they are
ConcInit ==
    /\ EngineAtRest
    /\ fs \in [Paths -> FileIds \cup {Absent}]
    /\ \A p \in Paths : fs[p] # Absent => fs[p] \in Candidates(p)
    /\ datasets = EmptyDict
    /\ dataset_info = EmptyDict
    /\ cache = <<>>
    /\ lastOp = Result("init", NoPath, "", "ok", "none", -1, <<>>, NoInfo)
    /\ loaded = EmptyDict
    /\ steps = 0
    /\ ThreadsIdle
    /\ cin = <<>>
    /\ cout = NoneV
    /\ cdone = TRUE
    /\ call = NoCall
    /\ ret = NoCall

ConcNext ==
    \/ \E w \in Writers, p \in Paths, n \in Names \cup {NoName} :
          WLoad(w, p, n) /\ UNCHANGED cvars /\ UNCHANGED evars
    \/ \E w \in Writers, n \in DatasetNames : WReload(w, n) /\ UNCHANGED cvars /\ UNCHANGED evars
    \/ \E w \in Writers : WStoreRows(w) /\ UNCHANGED cvars /\ UNCHANGED evars
    \/ \E w \in Writers : WStoreInfo(w) /\ UNCHANGED cvars /\ UNCHANGED evars
    \/ \E n \in DatasetNames : RGet(n) /\ UNCHANGED cvars /\ UNCHANGED evars
    \/ \E n \in DatasetNames : RInfo(n) /\ UNCHANGED cvars /\ UNCHANGED evars

SpecConc == ConcInit /\ [][ConcNext]_vars

\* the loaders on generated tables: one table, each loader once
TableInit ==
    /\ AtRest
    /\ EngineAtRest
    /\ call \in [fn : {"table"}, table : Tables]
    /\ ret = [fn |-> "table", csv |-> NotRun, json |-> NotRun]

TableNext == TableCsv \/ TableJson

SpecTable == TableInit /\ [][TableNext]_vars

\* get_column_stats on generated columns: one column, one call
ColumnInit ==
    /\ AtRest
    /\ EngineAtRest
    /\ call \in [fn : {"column"},
                 column : UNION { [1..k -> ColumnDomain] : k \in 0..MaxColumn }]
    /\ ret = NoCall

ColumnNext == ColumnStats

SpecColumn == ColumnInit /\ [][ColumnNext]_vars

\* the registry with get_column_stats: files come and go under data_dir
StatsInit ==
    /\ EngineAtRest
    /\ fs \in [Paths -> FileIds \cup {Absent}]
    /\ fs[PathExtA] = Absent
    /\ \A p \in Paths : fs[p] # Absent => fs[p] \in Candidates(p)
    /\ datasets = EmptyDict
    /\ dataset_info = EmptyDict
    /\ cache = <<>>
    /\ lastOp = Result("init", NoPath, "", "ok", "none", -1, <<>>, NoInfo)
    /\ loaded = EmptyDict
    /\ steps = 0
    /\ ThreadsIdle
    /\ cin = <<>>
    /\ cout = NoneV
    /\ cdone = TRUE
    /\ call = NoCall
    /\ ret = NoCall

StatsStep ==
    /\ steps < MaxSteps
    /\ steps' = steps + 1
    /\ UNCHANGED <<cin, cout, cdone>>
    /\ UNCHANGED evars
    /\ UNCHANGED tvars

StatsNext ==
    \/ \E p \in {PathDataA, PathDataB}, n \in Names \cup {NoName} :
          Load(p, n) /\ Step
    \/ \E n \in DatasetNames : Reload(n) /\ Step
    \/ \E n \in DatasetNames : GetDataset(n) /\ Step
    \/ \E n \in DatasetNames, c \in StatsColumns :
          GetColumnStats(n, c) /\ StatsStep
    \/ \E f \in FileIds : FsWrite(PathDataA, f) /\ Step

SpecStats == StatsInit /\ [][StatsNext]_vars

\* the registry behind the dashboard's data route
ApiNext ==
    \/ \E p \in {PathDataA, PathDataB}, n \in Names \cup {NoName} :
          Load(p, n) /\ Step
    \/ \E n \in DatasetNames : GetData(n) /\ StatsStep
    \/ \E f \in FileIds : FsWrite(PathDataA, f) /\ Step

SpecApi == StatsInit /\ [][ApiNext]_vars

\* ------------------------------------------------------------ JSON documents
\* the values json.load gives the elements of the generated documents
JsonElements ==
    { Prim(NoneV), Prim(BoolV(TRUE)), Prim(IntV(7)), Prim(StrV(<<"1","2">>)),
      Prim(ListV(<<<<"1">>, <<"2">>>>)),
      Obj(<<>>),
      Obj(<<[k |-> <<"a">>, v |-> StrV(<<"9">>)]>>),
      Obj(<<[k |-> <<"a">>, v |-> IntV(1)],
            [k |-> <<"b">>, v |-> StrV(<<" ","z">>)]>>),
      Obj(<<[k |-> ValueKey, v |-> StrV(<<>>)]>>) }

\* an array of up to MaxRows elements, or one value at the top level
JsonDocs ==
    { JsonFile(1, 1, "array", items) :
        items \in UNION { [1..n -> JsonElements] : n \in 0..MaxRows } }
      \cup { JsonFile(1, 1, "value", <<item>>) : item \in JsonElements }

\* _load_json on the generated document
JsonLoad ==
    /\ call.fn = "json"
    /\ ret = NoCall
    /\ ret' = Ran(LoadJson(call.file))
    /\ UNCHANGED <<cin, cout, cdone, call>>
    /\ UNCHANGED evars
    /\ UNCHANGED rvars
    /\ UNCHANGED tvars

JsonInit ==
    /\ AtRest
    /\ EngineAtRest
    /\ call \in [fn : {"json"}, file : JsonDocs]
    /\ ret = NoCall

JsonNext == JsonLoad

SpecJson == JsonInit /\ [][JsonNext]_vars

\* ---------------------------------------------------- delimited text files
\* the lines of the generated files of another extension
FlexLines ==
    { <<>>, <<" ">>, <<"a">>, <<" ","x"," ">>,
      <<"a",",","b">>, <<"1",",","2">>, <<"a",";","b">>, <<"1",";","2">>,
      <<"a","\t","b">>, <<"a","|","b">>, <<"1","|","2">>,
      <<"a",",","b",";","c">>, <<"1",";","2",",","3">> }

FlexFiles ==
    { CsvLines(lines) :
        lines \in UNION { [1..n -> FlexLines] : n \in 0..(MaxRows + 1) } }

\* _load_csv_flexible on the generated file
FlexLoad ==
    /\ call.fn = "flex"
    /\ ret = NoCall
    /\ ret' = Ran(LoadCsvFlexible(call.file))
    /\ UNCHANGED <<cin, cout, cdone, call>>
    /\ UNCHANGED evars
    /\ UNCHANGED rvars
    /\ UNCHANGED tvars

FlexInit ==
    /\ AtRest
    /\ EngineAtRest
    /\ call \in [fn : {"flex"}, file : FlexFiles]
    /\ ret = NoCall

FlexNext == FlexLoad

SpecFlex == FlexInit /\ [][FlexNext]_vars

\* ------------------------------------------------- visualization validation
\* VisualizationConfig.x_column / y_column: None, or a text (possibly empty)
Truthy(column) == column # NoneV /\ column # StrV(<<>>)

\* BaseVisualization.get_required_columns, lines 157-168
GetRequiredColumns(config) ==
    (IF Truthy(config.x_column) THEN <<config.x_column>> ELSE <<>>)
      \o (IF Truthy(config.y_column) THEN <<config.y_column>> ELSE <<>>)

Validated == [fn |-> "validate", res |-> "ok", value |-> BoolV(TRUE)]

ValidationError == [fn |-> "validate", res |-> "ValueError", value |-> NoneV]

\* the mutant of BarValidateData: every row is asked for the required columns
BarValidateDataEveryRow(config, data) ==
    IF data = <<>> THEN ValidationError
    ELSE IF \E r \in 1..Len(data), i \in 1..Len(GetRequiredColumns(config)) :
              ~HasKey(data[r], GetRequiredColumns(config)[i].s)
    THEN ValidationError
    ELSE Validated

\* BarChartVisualization.validate_data, lines 196-208
BarValidateData(config, data) ==
    IF data = <<>> THEN ValidationError
    ELSE IF \E i \in 1..Len(GetRequiredColumns(config)) :
              ~HasKey(data[1], GetRequiredColumns(config)[i].s)
    THEN ValidationError
    ELSE Validated

\* line 253
LatCols == {<<"l","a","t">>, <<"l","a","t","i","t","u","d","e">>, <<"y">>}

\* line 254
LngCols == {<<"l","n","g">>, <<"l","o","n","g","i","t","u","d","e">>,
            <<"l","o","n">>, <<"x">>}

\* MapVisualization.validate_data, lines 247-263
MapValidateData(data) ==
    IF data = <<>> THEN ValidationError
    ELSE IF ~( /\ \E col \in LatCols : HasKey(data[1], col)
               /\ \E col \in LngCols : HasKey(data[1], col) )
    THEN ValidationError
    ELSE Validated

\* the keys of the generated rows, in the order they are written in a row
VizKeys ==
    << <<"l","a","t">>, <<"l","a","t","i","t","u","d","e">>, <<"y">>,
       <<"l","n","g">>, <<"l","o","n","g","i","t","u","d","e">>,
       <<"l","o","n">>, <<"x">>, <<"f","o","o">> >>

\* the generated rows: no key, one key, or two keys, each with the value 1
VizRows ==
    {<<>>}
      \cup { <<[k |-> VizKeys[i], v |-> IntV(1)]>> : i \in 1..Len(VizKeys) }
      \cup { <<[k |-> VizKeys[ij[1]], v |-> IntV(1)],
               [k |-> VizKeys[ij[2]], v |-> IntV(1)]>> :
               ij \in { p \in (1..Len(VizKeys)) \X (1..Len(VizKeys)) :
                          p[1] < p[2] } }

VizData == UNION { [1..k -> VizRows] : k \in 0..MaxRows }

\* the column bindings of the generated configurations
XColumns == {NoneV, StrV(<<>>), StrV(<<"x">>), StrV(<<"f","o","o">>)}

YColumns == {NoneV, StrV(<<>>), StrV(<<"y">>)}

\* the bindings a map configuration is built with: validation never reads them
Unbound == [x_column |-> NoneV, y_column |-> NoneV]

\* create_visualization of a bar configuration, line 390
ValidateBar ==
    /\ call.fn = "validate"
    /\ call.kind = "bar"
    /\ ret = NoCall
    /\ ret' = BarValidateData(call.config, call.data)
    /\ UNCHANGED <<cin, cout, cdone, call>>
    /\ UNCHANGED evars
    /\ UNCHANGED rvars
    /\ UNCHANGED tvars

\* create_visualization of a map configuration, line 390
ValidateMap ==
    /\ call.fn = "validate"
    /\ call.kind = "map"
    /\ ret = NoCall
    /\ ret' = MapValidateData(call.data)
    /\ UNCHANGED <<cin, cout, cdone, call>>
    /\ UNCHANGED evars
    /\ UNCHANGED rvars
    /\ UNCHANGED tvars

\* validation of generated rows: one configuration, one call
ValidateInit ==
    /\ AtRest
    /\ EngineAtRest
    /\ \/ call \in [fn : {"validate"}, kind : {"bar"},
                    config : [x_column : XColumns, y_column : YColumns],
                    data : VizData]
       \/ call \in [fn : {"validate"}, kind : {"map"}, config : {Unbound},
                    data : VizData]
    /\ ret = NoCall

ValidateNext == ValidateBar \/ ValidateMap

SpecValidate == ValidateInit /\ [][ValidateNext]_vars

\* -------------------------------------------------- visualization rendering
\* A value of a frontend configuration: a scalar, the caller's row list
\* (held by reference), a list or a dict of scalars, or a list of layers
\* (each named by its type).
Scalar(v) == [k |-> "scalar", v |-> v, view |-> <<>>, layers |-> <<>>]

RowsRef == [k |-> "rows", v |-> NoneV, view |-> <<>>, layers |-> <<>>]

ListOf(items) == [k |-> "list", v |-> NoneV, view |-> items, layers |-> <<>>]

\* {"longitude", "latitude", "zoom", "pitch", "bearing"}, lines 285-291
ViewState(longitude, latitude, zoom, pitch, bearing) ==
    [k |-> "dict", v |-> NoneV,
     view |-> <<longitude, latitude, zoom, pitch, bearing>>, layers |-> <<>>]

Layers(types) == [k |-> "layers", v |-> NoneV, view |-> <<>>, layers |-> types]

\* a text kept whole
WholeText(txt) == StrV(<<txt>>)

\* bool(x) is False: None, a zero number, an empty text
Falsy(v) ==
    \/ v = NoneV
    \/ v.t \in {"int", "float", "bool"} /\ v.s = <<>> /\ v.n = 0
    \/ v.t = "str" /\ v.s = <<>>

\* x or y
Or(x, y) == IF Falsy(x) THEN y ELSE x

\* the mutant of Update: a computed key keeps its value
UpdateMissing(config, custom_config) ==
    [key \in DOMAIN config \cup DOMAIN custom_config |->
       IF key \in DOMAIN config THEN config[key] ELSE custom_config[key]]

\* dict.update, line 324: config.update(custom_config)
Update(config, custom_config) ==
    [key \in DOMAIN config \cup DOMAIN custom_config |->
       IF key \in DOMAIN custom_config THEN custom_config[key] ELSE config[key]]

\* lines 279-282: the centre, Tokyo for what is not given
DeckCenter(config) ==
    <<Or(config.center_lng, FloatV(1397672, -4)),
      Or(config.center_lat, FloatV(356812, -4))>>

\* lines 296-318: the layer of the kind
DeckLayers(config) ==
    IF config.viz_type = "arc_layer" THEN <<"ArcLayer">>
    ELSE IF config.viz_type = "scatterplot_layer" THEN <<"ScatterplotLayer">>
    ELSE <<>>

\* lines 284-294
DeckComputed(config) ==
    [key \in {"type", "data", "mapStyle", "initialViewState", "title", "layers"} |->
       CASE key = "type" -> Scalar(WholeText("deckgl_overlay"))
         [] key = "data" -> RowsRef
         [] key = "mapStyle" ->
              Scalar(WholeText("https://basemaps.cartocdn.com/gl/voyager-gl-style/style.json"))
         [] key = "initialViewState" ->
              ViewState(DeckCenter(config)[1], DeckCenter(config)[2],
                        config.zoom_level, Or(config.pitch, IntV(60)),
                        Or(config.bearing, IntV(-45)))
         [] key = "title" -> Scalar(config.title)
         [] OTHER -> Layers(DeckLayers(config))]

\* DeckGLVisualization.generate_frontend_config, lines 275-326
DeckGenerateFrontendConfig(config) ==
    IF config.custom_config # EmptyDict
    THEN Update(DeckComputed(config), config.custom_config)
    ELSE DeckComputed(config)

\* MapVisualization.generate_frontend_config, lines 218-245
MapGenerateFrontendConfig(config) ==
    [key \in {"type", "data", "center", "zoom", "pitch", "bearing", "title",
              "interactive", "layers"} |->
       CASE key = "type" -> Scalar(WholeText("map"))
         [] key = "data" -> RowsRef
         [] key = "center" -> ListOf(<<Or(config.center_lng, IntV(0)),
                                       Or(config.center_lat, IntV(0))>>)
         [] key = "zoom" -> Scalar(config.zoom_level)
         [] key = "pitch" -> Scalar(config.pitch)
         [] key = "bearing" -> Scalar(config.bearing)
         [] key = "title" -> Scalar(config.title)
         [] key = "interactive" -> Scalar(BoolV(TRUE))
         [] OTHER -> Layers(<<"circle">>)]

\* BarChartVisualization.generate_frontend_config, lines 178-194
BarGenerateFrontendConfig(config) ==
    [key \in {"type", "data", "encoding", "title", "width", "height", "theme",
              "interactive"} |->
       CASE key = "type" -> Scalar(WholeText("bar"))
         [] key = "data" -> RowsRef
         [] key = "encoding" -> ListOf(<<config.x_column, config.y_column, NoneV>>)
         [] key = "title" -> Scalar(config.title)
         [] key = "width" -> Scalar(IntV(800))
         [] key = "height" -> Scalar(IntV(400))
         [] key = "theme" -> Scalar(WholeText("modern"))
         [] OTHER -> Scalar(BoolV(TRUE))]

SourceKey == <<"s","o","u","r","c","e">>

TargetKey == <<"t","a","r","g","e","t">>

\* the mutant of DeckValidateData: every kind is asked for source and target
DeckValidateDataAnyKind(config, data) ==
    IF data = <<>> THEN ValidationError
    ELSE IF ~HasKey(data[1], SourceKey) \/ ~HasKey(data[1], TargetKey)
    THEN ValidationError
    ELSE Validated

\* DeckGLVisualization.validate_data, lines 328-342
DeckValidateData(config, data) ==
    IF data = <<>> THEN ValidationError
    ELSE IF /\ config.viz_type = "arc_layer"
            /\ ~HasKey(data[1], SourceKey) \/ ~HasKey(data[1], TargetKey)
    THEN ValidationError
    ELSE Validated

\* the classes a plugin may hand to register_visualization_type: two
\* subclasses of BaseVisualization and a class that is none
PluginClasses == {"PluginA", "PluginB"}

OtherClasses == {"NotAVisualization"}

\* viz_class(config).validate_data(data), line 390; a plugin class accepts
ValidateData(viz_class, config, data) ==
    CASE viz_class = "BarChartVisualization" -> BarValidateData(config, data)
      [] viz_class = "MapVisualization" -> MapValidateData(data)
      [] viz_class = "DeckGLVisualization" -> DeckValidateData(config, data)
      [] OTHER -> Validated

\* viz_class(config).generate_frontend_config(data), line 393; a plugin
\* class names itself
GenerateFrontendConfig(viz_class, config) ==
    CASE viz_class = "BarChartVisualization" -> BarGenerateFrontendConfig(config)
      [] viz_class = "MapVisualization" -> MapGenerateFrontendConfig(config)
      [] viz_class = "DeckGLVisualization" -> DeckGenerateFrontendConfig(config)
      [] OTHER -> [key \in {"type"} |-> Scalar(WholeText(viz_class))]

\* the mutant of RowsAfter: the render marks the first row
RowsAfterMarked(viz_class, config, data) ==
    IF data = <<>> THEN data
    ELSE [data EXCEPT ![1] = DictSet(data[1], <<"_","v">>, BoolV(TRUE))]

\* the caller's row list after validate_data and generate_frontend_config:
\* both only read it (lines 198-206, 249-257, 330-340) or store a reference
\* to it (lines 182, 222, 237, 286, 300, 312)
RowsAfter(viz_class, config, data) == data

NoSpec == [key \in {} |-> RowsRef]

Created(config, viz_class, res, message, validated, rendered, spec) ==
    [fn |-> "create", kind |-> config.viz_type, handler |-> viz_class,
     res |-> res, message |-> message, validated |-> validated,
     rendered |-> rendered, spec |-> spec]

\* the mutant of VizClass: a kind without a handler is drawn as a bar chart
VizClassOrBar(registry, viz_type) ==
    IF viz_type \in DOMAIN registry THEN registry[viz_type]
    ELSE "BarChartVisualization"

\* self.visualization_registry.get(config.viz_type), line 384
VizClass(registry, viz_type) ==
    IF viz_type \in DOMAIN registry THEN registry[viz_type] ELSE "none"

\* lines 385-396 with the class found
CreateWith(viz_class, config) ==
    IF viz_class = "none"
    THEN /\ ret' = Created(config, "none", "ValueError",
                           <<"Unsupported visualization type", config.viz_type>>,
                           FALSE, FALSE, NoSpec)
         /\ input_rows' = input_rows
    ELSE IF ValidateData(viz_class, config, input_rows) = ValidationError
    THEN /\ ret' = Created(config, viz_class, "ValueError",
                           <<"validation", config.viz_type>>, TRUE, FALSE, NoSpec)
         /\ input_rows' = input_rows
    ELSE /\ ret' = Created(config, viz_class, "ok", <<"", "">>, TRUE, TRUE,
                           GenerateFrontendConfig(viz_class, config))
         /\ input_rows' = RowsAfter(viz_class, config, input_rows)

\* VisualizationEngine.create_visualization, lines 367-396
CreateVisualization(config) ==
    /\ call' = [fn |-> "create", config |-> config, data |-> input_rows]
    /\ CreateWith(VizClass(visualization_registry, config.viz_type), config)
    /\ UNCHANGED <<visualization_registry, registered>>
    /\ UNCHANGED <<cin, cout, cdone>>
    /\ UNCHANGED tvars

\* the mutant of RegisterVisualizationType: the first registration is kept
RegisterVisualizationTypeOnce(viz_type, viz_class) ==
    /\ call' = [fn |-> "register", kind |-> viz_type, handler |-> viz_class]
    /\ IF viz_class \in OtherClasses
       THEN /\ ret' = [fn |-> "register", res |-> "ValueError"]
            /\ UNCHANGED <<visualization_registry, registered>>
       ELSE /\ visualization_registry' =
                 IF viz_type \in DOMAIN visualization_registry
                 THEN visualization_registry
                 ELSE Put(visualization_registry, viz_type, viz_class)
            /\ registered' = [registered EXCEPT ![viz_type] = viz_class]
            /\ ret' = [fn |-> "register", res |-> "ok"]
    /\ UNCHANGED input_rows
    /\ UNCHANGED <<cin, cout, cdone>>
    /\ UNCHANGED tvars

\* VisualizationEngine.register_visualization_type, lines 398-413
RegisterVisualizationType(viz_type, viz_class) ==
    /\ call' = [fn |-> "register", kind |-> viz_type, handler |-> viz_class]
    /\ IF viz_class \in OtherClasses
       THEN /\ ret' = [fn |-> "register", res |-> "ValueError"]
            /\ UNCHANGED <<visualization_registry, registered>>
       ELSE /\ visualization_registry' =
                 Put(visualization_registry, viz_type, viz_class)
            /\ registered' = [registered EXCEPT ![viz_type] = viz_class]
            /\ ret' = [fn |-> "register", res |-> "ok"]
    /\ UNCHANGED input_rows
    /\ UNCHANGED <<cin, cout, cdone>>
    /\ UNCHANGED tvars

\* the fields of VisualizationConfig the handlers read, with their defaults
\* (lines 66, 70-71, 81, 88-94)
Config(viz_type, x_column, center_lng, center_lat, custom_config) ==
    [viz_type |-> viz_type, title |-> WholeText("Untitled Visualization"),
     x_column |-> x_column, y_column |-> NoneV,
     center_lat |-> center_lat, center_lng |-> center_lng,
     zoom_level |-> IntV(10), pitch |-> IntV(0), bearing |-> IntV(0),
     custom_config |-> custom_config]

\* the centres of the generated configurations: unset, 0, 2.5, -3
Centres == {NoneV, IntV(0), FloatV(25, -1), IntV(-3)}

\* the override bags of the generated configurations
Bag(keys) ==
    [key \in keys |->
       CASE key = "layers" -> Scalar(IntV(7))
         [] key = "type" -> Scalar(WholeText("mine"))
         [] key = "initialViewState" -> Scalar(NoneV)
         [] OTHER -> Layers(<<"extra">>)]

Bags ==
    {Bag({}), Bag({"layers"}), Bag({"type"}), Bag({"initialViewState"}),
     Bag({"extra"}), Bag({"layers", "extra"})}

RenderKinds ==
    {"bar", "map", "deckgl_overlay", "arc_layer", "scatterplot_layer", "line"}

RenderConfigs ==
    { Config(kind, x, lng, lat, bag) :
        kind \in RenderKinds, x \in {NoneV, StrV(SourceKey)},
        lng \in Centres, lat \in Centres, bag \in Bags }

\* the generated rows: each key with the value 1
RenderRow(keys) == [i \in 1..Len(keys) |-> [k |-> keys[i], v |-> IntV(1)]]

RenderRows ==
    { RenderRow(<<>>), RenderRow(<<SourceKey>>), RenderRow(<<TargetKey>>),
      RenderRow(<<SourceKey, TargetKey>>), RenderRow(<<<<"f","o","o">>>>),
      RenderRow(<<<<"l","a","t">>, <<"l","n","g">>>>) }

RenderData == UNION { [1..n -> RenderRows] : n \in 0..MaxRows }

\* one engine, one row list, one create_visualization
RenderInit ==
    /\ AtRest
    /\ visualization_registry = BuiltInRegistry
    /\ registered = [k \in VisualizationTypes |-> "none"]
    /\ input_rows \in RenderData
    /\ call = NoCall
    /\ ret = NoCall

RenderNext ==
    \E config \in RenderConfigs :
        /\ ret = NoCall
        /\ CreateVisualization(config)
        /\ UNCHANGED rvars

SpecRender == RenderInit /\ [][RenderNext]_vars

\* an engine over which handlers are registered and visualizations created
EngineKinds == {"bar", "line", "custom"}

EngineClasses == {"MapVisualization"} \cup PluginClasses \cup OtherClasses

EngineConfigs ==
    { Config(kind, NoneV, NoneV, NoneV, EmptyDict) :
        kind \in EngineKinds \cup {"map", "pie"} }

EngineInit ==
    /\ AtRest
    /\ visualization_registry = BuiltInRegistry
    /\ registered = [k \in VisualizationTypes |-> "none"]
    /\ input_rows \in {<<>>, <<RenderRow(<<<<"l","a","t">>, <<"l","n","g">>>>)>>}
    /\ call = NoCall
    /\ ret = NoCall

EngineStep ==
    /\ steps < MaxSteps
    /\ steps' = steps + 1
    /\ UNCHANGED <<fs, datasets, dataset_info, cache, lastOp, loaded>>

EngineNext ==
    \/ \E k \in EngineKinds, c \in EngineClasses :
          RegisterVisualizationType(k, c) /\ EngineStep
    \/ \E config \in EngineConfigs : CreateVisualization(config) /\ EngineStep

SpecEngine == EngineInit /\ [][EngineNext]_vars

\* ------------------------------------------------------------------- claims
\* the column names occurring in rows
ColumnNames(rows) == UNION { KeySet(rows[i]) : i \in 1..Len(rows) }

SeqRange(seq) == { seq[i] : i \in 1..Len(seq) }

\* C1: once a load or reload of n has succeeded, every later get(n) returns
\* the rows of that most recent load and info(n) describes those rows, also
\* when get(n) had been called before that load.  Stated for the states in
\* which the stored rows are the rows of the latest successful load.
C1_GetReturnsLatestLoad ==
    /\ ( /\ lastOp.op = "get"
         /\ lastOp.res = "ok"
         /\ lastOp.name \in DOMAIN loaded
         /\ datasets[lastOp.name] = loaded[lastOp.name] )
       => lastOp.rows = loaded[lastOp.name]
    /\ ( /\ lastOp.op = "info"
         /\ lastOp.res = "ok"
         /\ lastOp.name \in DOMAIN loaded
         /\ datasets[lastOp.name] = loaded[lastOp.name] )
       => /\ lastOp.info.row_count = Len(loaded[lastOp.name])
          /\ lastOp.info.columns = ColumnsOf(loaded[lastOp.name])

\* C2: in every reachable state a name has stored rows exactly when it has
\* a DatasetInfo, and for every stored name row_count is the number of
\* stored rows, columns lists exactly the column names occurring in the
\* stored rows, and column_count is the length of that list.
C2_InfoMatchesRows ==
    /\ DOMAIN datasets = DOMAIN dataset_info
    /\ \A n \in DOMAIN datasets \cap DOMAIN dataset_info :
          /\ dataset_info[n].row_count = Len(datasets[n])
          /\ SeqRange(dataset_info[n].columns) = ColumnNames(datasets[n])
          /\ dataset_info[n].column_count = Len(dataset_info[n].columns)

\* C3: a load or reload that fails, for whatever reason, leaves the rows
\* and the DatasetInfo stored under every name as they were before the call.
C3_FailedLoadChangesNothing ==
    [][ (lastOp'.op \in {"load", "reload"} /\ lastOp'.res # "ok")
          => (datasets' = datasets /\ dataset_info' = dataset_info) ]_vars

\* C4: while a load or reload of n runs beside a reader, the rows and the
\* info visible under n belong to the same load at every point: never the
\* new rows with the old DatasetInfo.
C4_RowsAndInfoOfOneLoad ==
    \A n \in DOMAIN datasets \cap DOMAIN dataset_info :
        owner[n].rows = owner[n].info

\* C5: after two racing load/reload calls for the same name have both
\* finished, the stored rows and the stored DatasetInfo of that name come
\* from the same one of the two writers.
C5_RacingWritersNoMix ==
    \A n \in DatasetNames :
        ( \A w \in Writers : wpc[w] = "returned" /\ wloc[w].name = n )
          => owner[n].rows = owner[n].info

\* C6: for a name never successfully loaded, get, info and reload fail with
\* the not-found error and change no stored state; for a name successfully
\* loaded, get and info succeed, also after an earlier failed get.
C6_NotFoundUntilLoaded ==
    [][ /\ ( lastOp'.op \in {"get", "info", "reload"}
             /\ lastOp'.name \notin DOMAIN loaded )
           => /\ lastOp'.res = "KeyError"
              /\ datasets' = datasets
              /\ dataset_info' = dataset_info
        /\ ( lastOp'.op \in {"get", "info"} /\ lastOp'.name \in DOMAIN loaded )
           => lastOp'.res = "ok" ]_vars

\* C7 as stated: a successful reload(n) leaves under n the rows and the
\* metadata of the file currently at the path p recorded in n's
\* DatasetInfo, and leaves the loaded names and every other name unchanged.
C7_ReloadReadsRecordedPath ==
    [][ (lastOp'.op = "reload" /\ lastOp'.res = "ok")
          => LET n == lastOp'.name
                 p == dataset_info[n].file_path
             IN  /\ fs[p] # Absent
                 /\ datasets' =
                        Put(datasets, n, LoadTable[fs[p]][LoaderOf(p.suffix)].rows)
                 /\ dataset_info'[n].file_path = p
                 /\ dataset_info'[n].size_bytes = Files[fs[p]].size
                 /\ DOMAIN datasets' = DOMAIN datasets
                 /\ DOMAIN dataset_info' = DOMAIN dataset_info
                 /\ \A m \in DOMAIN dataset_info \ {n} :
                        dataset_info'[m] = dataset_info[m] ]_vars

\* C7 amended: a successful reload(n) leaves under n the rows and the
\* metadata of the file load resolves the recorded path p to, which is p
\* when a file exists there and else the file of the same name in the data
\* directory; the loaded names and every other name stay unchanged.
C7_ReloadReadsResolvedPath ==
    [][ (lastOp'.op = "reload" /\ lastOp'.res = "ok")
          => LET n == lastOp'.name
                 p == dataset_info[n].file_path
                 q == IF fs[p] # Absent THEN p ELSE [p EXCEPT !.dir = DataDir]
                 rows == LoadTable[fs[q]][LoaderOf(q.suffix)].rows
             IN  /\ lastOp'.path = p
                 /\ fs[q] # Absent
                 /\ datasets' = Put(datasets, n, rows)
                 /\ dataset_info'[n].name = n
                 /\ dataset_info'[n].file_path = q
                 /\ dataset_info'[n].size_bytes = Files[fs[q]].size
                 /\ dataset_info'[n].last_modified = Files[fs[q]].mtime
                 /\ dataset_info'[n].row_count = Len(rows)
                 /\ dataset_info'[n].columns = ColumnsOf(rows)
                 /\ DOMAIN datasets' = DOMAIN datasets
                 /\ DOMAIN dataset_info' = DOMAIN dataset_info
                 /\ \A m \in DOMAIN dataset_info \ {n} :
                        dataset_info'[m] = dataset_info[m] ]_vars

\* a reload that succeeded from the data directory, the recorded path
\* holding no file
C7_Witness ==
    /\ lastOp.op = "reload"
    /\ lastOp.res = "ok"
    /\ lastOp.path = PathExtA
    /\ fs[PathExtA] = Absent
    /\ dataset_info[lastOp.name].file_path = PathDataA

\* C8: a load of an existing file fails with the size-limit error exactly
\* when its size is strictly greater than max_size_mb * 1024 * 1024,
\* whatever the extension, and then no loader has run; a file of exactly
\* the maximum size is not rejected.
C8_SizeLimit ==
    (lastOp.op \in {"load", "reload"} /\ lastOp.size >= 0)
      => /\ lastOp.res = "SizeLimitError"
              <=> lastOp.size > MaxSizeMb * 1024 * 1024
         /\ lastOp.res = "SizeLimitError" => lastOp.loader = "none"
         /\ lastOp.res # "SizeLimitError" => lastOp.loader # "none"

\* a file of exactly the maximum size has been loaded
C8_Witness ==
    /\ lastOp.op = "load"
    /\ lastOp.res = "ok"
    /\ lastOp.size = MaxSizeMb * 1024 * 1024
    /\ lastOp.name \in DOMAIN datasets

\* C9 as stated: load fails with the not-found error whenever no file
\* exists at the given path, and then stores and replaces nothing.
C9_AbsentPathNotFound ==
    [][ (lastOp'.op = "load" /\ fs[lastOp'.path] = Absent)
          => /\ lastOp'.res = "FileNotFoundError"
             /\ datasets' = datasets
             /\ dataset_info' = dataset_info ]_vars

\* C9 amended: load fails with the not-found error whenever no file
\* exists at the given path and none of the same file name in the data
\* directory, and then stores and replaces nothing; with a file at either
\* place it does not fail so before a loader has run.
C9_AbsentEverywhereNotFound ==
    [][ lastOp'.op = "load"
          => LET p == lastOp'.path
                 nowhere == /\ fs[p] = Absent
                            /\ fs[[p EXCEPT !.dir = DataDir]] = Absent
             IN  /\ nowhere => /\ lastOp'.res = "FileNotFoundError"
                               /\ lastOp'.loader = "none"
                               /\ datasets' = datasets
                               /\ dataset_info' = dataset_info
                 /\ ~nowhere => ~( /\ lastOp'.res = "FileNotFoundError"
                                   /\ lastOp'.loader = "none" ) ]_vars

\* a load found no file while a dataset was stored
C9_Witness ==
    /\ lastOp.op = "load"
    /\ lastOp.res = "FileNotFoundError"
    /\ lastOp.loader = "none"
    /\ fs[lastOp.path] = Absent
    /\ fs[InDataDir(lastOp.path)] = Absent
    /\ lastOp.name \in DOMAIN datasets

\* C10: _smart_convert returns the result of the first rule that applies in
\* the order boolean, percentage, number, date; a text returned as a string
\* satisfied none of them.
C10_CoercePriority ==
    (cdone /\ cin # <<>>)
      => /\ BoolRule(cin).ok => cout = BoolRule(cin).v
         /\ (~BoolRule(cin).ok /\ PercentRule(cin).ok)
              => cout = PercentRule(cin).v
         /\ (~BoolRule(cin).ok /\ ~PercentRule(cin).ok /\ NumberRule(cin).ok)
              => cout = NumberRule(cin).v
         /\ ( /\ ~BoolRule(cin).ok
              /\ ~PercentRule(cin).ok
              /\ ~NumberRule(cin).ok
              /\ DateRule(cin).ok )
              => cout = DateRule(cin).v
         /\ cout.t = "str"
              => /\ ~BoolRule(cin).ok
                 /\ ~PercentRule(cin).ok
                 /\ ~NumberRule(cin).ok
                 /\ ~DateRule(cin).ok
                 /\ cout = StrV(cin)

\* "1" satisfies the boolean rule and the number rule, and is a boolean
C10_Witness ==
    /\ cdone
    /\ cin = <<"1">>
    /\ NumberRule(cin).ok
    /\ cout = BoolV(TRUE)

\* C11: _smart_convert never raises: for every text it returns None, a
\* boolean, a number, a date-time or the text itself; a parse attempt that
\* fails falls through to the next rule and at last to the text.
C11_CoerceNeverRaises ==
    cdone
      => /\ cout.t \in {"NoneType", "bool", "int", "float", "datetime", "str"}
         /\ cin = <<>> => cout = NoneV
         /\ ( /\ cin # <<>>
              /\ ~BoolRule(cin).ok
              /\ ~PercentRule(cin).ok
              /\ ~NumberRule(cin).ok
              /\ ~DateRule(cin).ok )
              => cout = StrV(cin)

\* a text ending in % whose body is no number, and which is no number and
\* no date either, came back as the text
C11_Witness ==
    /\ cdone
    /\ cin = <<"y", "%">>
    /\ ~PercentRule(cin).ok
    /\ ~NumberRule(cin).ok
    /\ cout = StrV(cin)

\* the rows of a table with every value an int equal to the literal
IntRows(table) ==
    [i \in 1..Len(table.rows) |->
       [j \in 1..Len(table.cols) |->
          [k |-> table.cols[j], v |-> IntV(table.rows[i][j])]]]

\* C12: loading a CSV file with a header of column names and data fields
\* that are all decimal integer literals gives one row per data line, in
\* file order, every value an integer equal to its literal.  Stated for
\* the tables of two columns and at least one data line.
C12_CsvIntegersAreIntegers ==
    ( /\ call.fn = "table"
      /\ ret.csv.run
      /\ Len(call.table.cols) >= 2
      /\ Len(call.table.rows) >= 1 )
      => /\ ret.csv.ok
         /\ ret.csv.rows = IntRows(call.table)

\* C13: a table of integers loaded as a JSON array of objects and as a CSV
\* file with the same column names gives equal row sequences: as many
\* rows, in the same order, with the same keys, values and value types.
\* Stated for the tables of two columns and at least one row.
C13_JsonAndCsvAgree ==
    ( /\ call.fn = "table"
      /\ ret.csv.run
      /\ ret.json.run
      /\ Len(call.table.cols) >= 2
      /\ Len(call.table.rows) >= 1 )
      => /\ ret.csv.ok = ret.json.ok
         /\ ret.csv.rows = ret.json.rows

\* the type name of maximal count whose first occurrence is the earliest
FirstMostFrequent(types) ==
    types[CHOOSE j \in 1..Len(types) :
            /\ \A k \in 1..Len(types) :
                   Count(types, types[k]) <= Count(types, types[j])
            /\ \A k \in 1..(j - 1) :
                   Count(types, types[k]) < Count(types, types[j])]

\* C14: the dominant type DatasetInfo records for a column is the type name
\* occurring most often among the column's values in the first
\* min(10, row count) rows, and among equally frequent type names the one
\* that occurs first in the sample.
C14_DominantTypeFirstOnTies ==
    (lastOp.op \in {"load", "reload"} /\ lastOp.res = "ok")
      => LET rows == lastOp.rows
             info == dataset_info[lastOp.name]
         IN  \A c \in 1..Len(info.data_types) :
                 info.data_types[c].v =
                     FirstMostFrequent(
                         [i \in 1..(IF Len(rows) < 10 THEN Len(rows) ELSE 10) |->
                            RowGet(rows[i], info.data_types[c].k).t])

\* the non-null values of the generated column
GatheredValues == ColumnValues(ColumnRows(call.column), ColumnKey, 1)

\* C15: for a column whose non-null values are all numbers (int or float),
\* column_stats reports count = rows with a value, null_count = rows minus
\* count, the dominant type name of the values, their min and max, mean =
\* sum / count and unique_count = number of distinct values.
C15_NumericColumnStats ==
    ( /\ call.fn = "column"
      /\ ret # NoCall
      /\ GatheredValues # <<>>
      /\ \A i \in 1..Len(GatheredValues) :
             GatheredValues[i].t \in {"int", "float"} )
      => /\ ret.kind = "numeric"
         /\ ret.count = Len(GatheredValues)
         /\ ret.null_count = Len(call.column) - Len(GatheredValues)
         /\ \A i \in 1..Len(GatheredValues) :
                Cardinality({ j \in 1..Len(GatheredValues) :
                                GatheredValues[j].t = GatheredValues[i].t })
                  <= Cardinality({ j \in 1..Len(GatheredValues) :
                                     GatheredValues[j].t = ret.data_type })
         /\ \E i \in 1..Len(GatheredValues) : GatheredValues[i] = ret.min
         /\ \A i \in 1..Len(GatheredValues) : ~NumLess(GatheredValues[i], ret.min)
         /\ \E i \in 1..Len(GatheredValues) : GatheredValues[i] = ret.max
         /\ \A i \in 1..Len(GatheredValues) : ~NumLess(ret.max, GatheredValues[i])
         /\ ret.mean.den = Len(GatheredValues)
         /\ ret.mean.num = SumScaled(GatheredValues, ret.mean.e, 1)
         /\ ret.unique_count =
                Cardinality({ j \in 1..Len(GatheredValues) :
                                \A k \in 1..(j - 1) :
                                    ~NumEq(GatheredValues[k], GatheredValues[j]) })

\* C16: for a column whose non-null values are all strings, most_common
\* is a value of maximal number of occurrences, and among several such
\* values the one that occurs first in row order.
C16_MostCommonFirstOnTies ==
    ( /\ call.fn = "column"
      /\ ret # NoCall
      /\ GatheredValues # <<>>
      /\ \A i \in 1..Len(GatheredValues) : GatheredValues[i].t = "str" )
      => /\ ret.kind = "text"
         /\ ret.most_common = FirstMostFrequent(GatheredValues)

\* C17: on a loaded dataset, column_stats of a column without a non-null
\* value in any row (a column name in no row, an empty dataset) returns
\* the no-data result, does not raise, and changes no stored state.
\* Stated for the names whose stored rows are those of their last load.
C17_NoDataResult ==
    [][ ( /\ lastOp'.op = "stats"
          /\ call'.name \in DOMAIN loaded
          /\ datasets[call'.name] = loaded[call'.name]
          /\ ColumnValues(datasets[call'.name], call'.column, 1) = <<>> )
          => /\ lastOp'.res = "ok"
             /\ ret' = NoDataStats
             /\ datasets' = datasets
             /\ dataset_info' = dataset_info ]_vars

\* C18: column_stats(n, c) is computed from the rows info(n) describes:
\* when it returns statistics, count + null_count = info(n).row_count.
\* Stated for the names whose stored rows are those of their last load.
C18_StatsOverDescribedRows ==
    ( /\ lastOp.op = "stats"
      /\ lastOp.res = "ok"
      /\ ret.kind \in {"numeric", "text", "mixed"}
      /\ lastOp.name \in DOMAIN loaded
      /\ lastOp.name \in DOMAIN dataset_info
      /\ datasets[lastOp.name] = loaded[lastOp.name] )
      => ret.count + ret.null_count = dataset_info[lastOp.name].row_count

\* C19: validation for the map kind succeeds exactly when the rows are
\* non-empty and at least one row, not necessarily the first, has a key
\* among lat, latitude, y and a key among lng, longitude, lon, x;
\* otherwise it fails with a validation error.
C19_MapValidAnyRow ==
    ( /\ call.fn = "validate"
      /\ call.kind = "map"
      /\ ret # NoCall )
      => /\ ret \in {Validated, ValidationError}
         /\ ret = Validated
              <=> /\ call.data # <<>>
                  /\ \E r \in 1..Len(call.data) :
                       /\ \E col \in LatCols : HasKey(call.data[r], col)
                       /\ \E col \in LngCols : HasKey(call.data[r], col)

\* C20: validation for the bar kind fails exactly when the rows are empty
\* or a configured x or y column name is not a key of the first row; an
\* unset (None or empty) binding requires nothing, and the outcome does
\* not depend on the rows after the first.
C20_BarValidFirstRow ==
    ( /\ call.fn = "validate"
      /\ call.kind = "bar"
      /\ ret # NoCall )
      => /\ ret \in {Validated, ValidationError}
         /\ ret = ValidationError
              <=> \/ call.data = <<>>
                  \/ /\ call.config.x_column \notin {NoneV, StrV(<<>>)}
                     /\ call.config.x_column.s \notin KeySet(call.data[1])
                  \/ /\ call.config.y_column \notin {NoneV, StrV(<<>>)}
                     /\ call.config.y_column.s \notin KeySet(call.data[1])

\* a bar validation that succeeded on two rows of which the first has the
\* configured x column and the second has not
C20_Witness ==
    /\ call.fn = "validate"
    /\ call.kind = "bar"
    /\ ret = Validated
    /\ Len(call.data) = 2
    /\ call.config.x_column = StrV(<<"x">>)
    /\ call.config.y_column = NoneV
    /\ <<"x">> \in KeySet(call.data[1])
    /\ <<"x">> \notin KeySet(call.data[2])

DeckKinds == {"deckgl_overlay", "arc_layer", "scatterplot_layer"}

\* a create_visualization of a deckgl kind has returned or raised
DeckCreated ==
    /\ ret # NoCall
    /\ ret.fn = "create"
    /\ ret.kind \in DeckKinds

\* C21: for the deckgl handler, validation of arc_layer fails when the
\* rows are empty or lack a source or a target field (decided on the first
\* row), and validation of deckgl_overlay and scatterplot_layer fails for
\* empty rows only.
C21_DeckValidation ==
    DeckCreated
      => /\ ret.validated
         /\ ret.kind = "arc_layer"
              => /\ ret.res = "ValueError"
                      <=> \/ call.data = <<>>
                          \/ ~HasKey(call.data[1], SourceKey)
                          \/ ~HasKey(call.data[1], TargetKey)
                 /\ ( \/ \A r \in 1..Len(call.data) : ~HasKey(call.data[r], SourceKey)
                      \/ \A r \in 1..Len(call.data) : ~HasKey(call.data[r], TargetKey) )
                      => ret.res = "ValueError"
         /\ ret.kind # "arc_layer"
              => (ret.res = "ValueError" <=> call.data = <<>>)

\* an arc_layer rejected for a first row with a source and no target
C21_Witness ==
    /\ DeckCreated
    /\ call.data # <<>>
    /\ ret.kind = "arc_layer"
    /\ HasKey(call.data[1], SourceKey)
    /\ ~HasKey(call.data[1], TargetKey)
    /\ ret.res = "ValueError"

\* C22: in the configuration the deckgl handler returns, every key of the
\* caller's override bag has the override's value, also when the handler
\* computes that key, and every computed key not in the bag has its
\* computed value.
C22_OverridesWin ==
    ( DeckCreated /\ ret.res = "ok" )
      => /\ DOMAIN ret.spec
              = DOMAIN DeckComputed(call.config) \cup DOMAIN call.config.custom_config
         /\ \A key \in DOMAIN call.config.custom_config :
                ret.spec[key] = call.config.custom_config[key]
         /\ \A key \in DOMAIN DeckComputed(call.config)
                         \ DOMAIN call.config.custom_config :
                ret.spec[key] = DeckComputed(call.config)[key]

\* an arc_layer rendered with a bag that overrides the computed layers and
\* adds a key
C22_Witness ==
    /\ DeckCreated
    /\ ret.res = "ok"
    /\ ret.kind = "arc_layer"
    /\ DOMAIN call.config.custom_config = {"layers", "extra"}
    /\ ret.spec["layers"] = Scalar(IntV(7))
    /\ ret.spec["initialViewState"].k = "dict"

\* C23: the deckgl initial view state has the configured longitude and
\* latitude whenever one is set, 0 included, and the default coordinate
\* only for an unset component; the map centre is the configured one when
\* set and 0 when unset.
C23_CentreAsConfigured ==
    /\ ( DeckCreated /\ ret.res = "ok"
         /\ "initialViewState" \notin DOMAIN call.config.custom_config )
         => /\ ret.spec["initialViewState"].view[1]
                 = IF call.config.center_lng # NoneV THEN call.config.center_lng
                   ELSE FloatV(1397672, -4)
            /\ ret.spec["initialViewState"].view[2]
                 = IF call.config.center_lat # NoneV THEN call.config.center_lat
                   ELSE FloatV(356812, -4)
    /\ ( ret # NoCall /\ ret.fn = "create" /\ ret.kind = "map" /\ ret.res = "ok" )
         => /\ NumEq(ret.spec["center"].view[1],
                     IF call.config.center_lng # NoneV THEN call.config.center_lng
                     ELSE IntV(0))
            /\ NumEq(ret.spec["center"].view[2],
                     IF call.config.center_lat # NoneV THEN call.config.center_lat
                     ELSE IntV(0))

\* a create_visualization step
CreateStep == steps' = steps + 1 /\ call'.fn = "create"

\* a register_visualization_type step
RegisterStep == steps' = steps + 1 /\ call'.fn = "register"

\* C24: creating a visualization of a kind without a registered handler
\* fails with the unsupported-type error naming the kind, runs neither
\* validation nor rendering, and leaves the registry as it was.
C24_UnregisteredKind ==
    [][ ( CreateStep
          /\ call'.config.viz_type \notin DOMAIN visualization_registry )
          => /\ ret'.res = "ValueError"
             /\ ret'.message
                  = <<"Unsupported visualization type", call'.config.viz_type>>
             /\ ~ret'.validated
             /\ ~ret'.rendered
             /\ ret'.spec = NoSpec
             /\ visualization_registry' = visualization_registry ]_vars

\* pie was refused while line, registered by then, has a handler
C24_Witness ==
    /\ ret # NoCall
    /\ ret.fn = "create"
    /\ ret.kind = "pie"
    /\ ret.res = "ValueError"
    /\ "line" \in DOMAIN visualization_registry

\* C25: the handler used for a kind is the one last registered for it, or
\* the built-in one; a registration changes the handler of no other kind,
\* and a rejected registration leaves the registry unchanged.
C25_LastRegisteredWins ==
    [][ /\ ( CreateStep /\ ret'.handler # "none" )
             => ret'.handler
                  = IF registered[call'.config.viz_type] # "none"
                    THEN registered[call'.config.viz_type]
                    ELSE BuiltInRegistry[call'.config.viz_type]
        /\ ( CreateStep /\ ret'.handler = "none" )
             => /\ registered[call'.config.viz_type] = "none"
                /\ call'.config.viz_type \notin DOMAIN BuiltInRegistry
        /\ ( RegisterStep /\ ret'.res = "ok" )
             => /\ visualization_registry'[call'.kind] = call'.handler
                /\ \A k \in VisualizationTypes \ {call'.kind} :
                       VizClass(visualization_registry', k)
                         = VizClass(visualization_registry, k)
        /\ ( RegisterStep /\ ret'.res # "ok" )
             => visualization_registry' = visualization_registry ]_vars

\* a bar drawn by a plugin class registered over the built-in handler
C25_Witness ==
    /\ ret # NoCall
    /\ ret.fn = "create"
    /\ ret.kind = "bar"
    /\ ret.handler = "PluginB"
    /\ steps >= 3

RowOfElement(item, row) ==
    IF item.isMap
    THEN /\ Keys(row) = Keys(item.fields)
         /\ \A i \in 1..Len(row) : row[i].v = ConvertValue(item.fields[i].v)
    ELSE row = <<[k |-> ValueKey, v |-> item.v]>>

\* C27: loading a JSON document gives, for an array, one row per element
\* in array order, a mapping as the row of its coerced fields and any
\* other element e as the row {value: e}; for a mapping at the top level
\* one row; for any other value v the one row {value: v}.
C27_JsonRows ==
    ( call.fn = "json" /\ ret # NoCall )
      => /\ ret.ok
         /\ call.file.shape = "array"
              => /\ Len(ret.rows) = Len(call.file.items)
                 /\ \A i \in 1..Len(ret.rows) :
                        RowOfElement(call.file.items[i], ret.rows[i])
         /\ call.file.shape # "array"
              => /\ Len(ret.rows) = 1
                 /\ RowOfElement(call.file.items[1], ret.rows[1])

\* an array of a text and a mapping, loaded as {value: "12"} and {a: 9}
C27_Witness ==
    /\ call.fn = "json"
    /\ ret # NoCall
    /\ call.file.shape = "array"
    /\ ret.rows = << <<[k |-> ValueKey, v |-> StrV(<<"1","2">>)]>>,
                     <<[k |-> <<"a">>, v |-> IntV(9)]>> >>

\* the coerced rows the i-th delimiter gives on the file of the call
RowsWith(i) == ConvertRows(DictReader(call.file.lines, FlexDelimiters[i]))

\* the i-th delimiter gives rows, of more than one column
Qualifies(i) == RowsWith(i) # <<>> /\ Len(RowsWith(i)[1]) > 1

\* C28: for a file of another extension the delimiters comma, semicolon,
\* tab and pipe are tried in that order and the rows of the first that
\* gives rows of more than one column are returned; if none does, the
\* result is one row {value: line} per non-blank line, trimmed, in file
\* order.
C28_FirstQualifyingDelimiter ==
    ( call.fn = "flex" /\ ret # NoCall )
      => /\ ret.ok
         /\ FlexDelimiters = <<",", ";", "\t", "|">>
         /\ \A i \in 1..Len(FlexDelimiters) :
                ( Qualifies(i) /\ \A j \in 1..(i - 1) : ~Qualifies(j) )
                  => ret.rows = RowsWith(i)
         /\ ( \A i \in 1..Len(FlexDelimiters) : ~Qualifies(i) )
              => /\ \A r \in 1..Len(ret.rows) :
                        /\ Keys(ret.rows[r]) = <<ValueKey>>
                        /\ ret.rows[r][1].v.t = "str"
                 /\ [r \in 1..Len(ret.rows) |-> ret.rows[r][1].v.s]
                      = SelectSeq([l \in 1..Len(call.file.lines) |->
                                     Strip(call.file.lines[l])],
                                  LAMBDA line : line # <<>>)

\* a file that both the comma and the semicolon split into two columns,
\* read with the comma
C28_Witness ==
    /\ call.fn = "flex"
    /\ ret # NoCall
    /\ Qualifies(1)
    /\ Qualifies(2)
    /\ RowsWith(1) # RowsWith(2)
    /\ ret.rows = RowsWith(1)

\* C29: a CSV file that decodes and parses without error, one with a
\* header line and no data rows included, is loaded; the format error is
\* kept for files no encoding decodes.
C29_ParsedCsvIsLoaded ==
    ( /\ call.fn = "table"
      /\ ret.csv.run
      /\ Sniff(TableLines(call.table)) # "" )
      => /\ ret.csv.ok
         /\ Len(ret.csv.rows) = Len(call.table.rows)

\* C30: GET /api/data/{dataset_name} answers 404 for a name that was never
\* loaded, and for a loaded name answers with its rows, their count and
\* the name.
C30_DataRoute ==
    ( call.fn = "get_data" /\ lastOp.op = "route" )
      => /\ ( call.name \notin DOMAIN datasets /\ call.name \notin DOMAIN loaded )
              => ret.status = 404
         /\ call.name \in DOMAIN loaded
              => /\ ret.status = 200
                 /\ ret.data = loaded[call.name]
                 /\ ret.count = Len(loaded[call.name])
                 /\ ret.dataset = call.name

====
